---- MODULE Spec2Model ----
(***************************************************************************)
(* Statement parsing engine of the PDF service (src/pdf_parser.py):        *)
(* the bank detector, process_pdf and the four per-bank line parsers.      *)
(*                                                                         *)
(* Text is modelled as Python sees it: a string is a sequence of one-      *)
(* character strings, a page is the text extract_text() returns for it     *)
(* (or None), and its lines are text.split('\n').  Amounts are held in     *)
(* whole cents (float("1,234.56") is 123456), dates as the strings the     *)
(* code stores.                                                            *)
(***************************************************************************)
EXTENDS Integers, Sequences, FiniteSets, TLC

(* ------------------------------------------------------------------ *)
(* Bounds of the model                                                 *)
(* ------------------------------------------------------------------ *)
\* number of text fragments joined into one detector input
MaxFrags == 3

(* ------------------------------------------------------------------ *)
(* Strings                                                             *)
(* ------------------------------------------------------------------ *)
UpperChars == <<"A","B","C","D","E","F","G","H","I","J","K","L","M","N","O","P","Q","R","S","T","U","V","W","X","Y","Z">>
LowerChars == <<"a","b","c","d","e","f","g","h","i","j","k","l","m","n","o","p","q","r","s","t","u","v","w","x","y","z">>
DigitChars == <<"0","1","2","3","4","5","6","7","8","9">>

SeqRange(s) == {s[i] : i \in 1..Len(s)}
\* [A-Z], [a-z], [0-9]
UpperSet == SeqRange(UpperChars)
LowerSet == SeqRange(LowerChars)
AsciiDigitSet == SeqRange(DigitChars)

IndexIn(c, s) == CHOOSE i \in 1..Len(s) : s[i] = c

\* ''.join(parts)
RECURSIVE Concat(_)
Concat(parts) == IF parts = <<>> THEN <<>> ELSE Head(parts) \o Concat(Tail(parts))

(* ------------------------------------------------------------------ *)
(* Characters.  A character up to U+00FF is written as itself ("\t",    *)
(* "\n", "\f", "\r" for the four escapes); NUL, the grave accent and   *)
(* every character beyond U+00FF are written by their code point:      *)
(* "U+0000", "U+0060", "U+212A".  Chr(n) is the character of code      *)
(* point n.  The tables are those of the Unicode database of the       *)
(* interpreter (Unicode 14.0.0).                                       *)
(* ------------------------------------------------------------------ *)
HexChars == <<"0","1","2","3","4","5","6","7","8","9","A","B","C","D","E","F">>
RECURSIVE Hex(_)
Hex(n) == IF n < 16 THEN HexChars[n + 1] ELSE Hex(n \div 16) \o HexChars[(n % 16) + 1]

\* the characters U+0000 .. U+00FF
Latin1Chars ==
    <<
    "U+0000", "", "", "", "", "", "", "", "", "\t", "\n", "", "\f", "\r", "", "",
    "", "", "", "", "", "", "", "", "", "", "", "", "", "", "", "",
    " ", "!", "\"", "#", "$", "%", "&", "'", "(", ")", "*", "+", ",", "-", ".", "/",
    "0", "1", "2", "3", "4", "5", "6", "7", "8", "9", ":", ";", "<", "=", ">", "?",
    "@", "A", "B", "C", "D", "E", "F", "G", "H", "I", "J", "K", "L", "M", "N", "O",
    "P", "Q", "R", "S", "T", "U", "V", "W", "X", "Y", "Z", "[", "\\", "]", "^", "_",
    "U+0060", "a", "b", "c", "d", "e", "f", "g", "h", "i", "j", "k", "l", "m", "n", "o",
    "p", "q", "r", "s", "t", "u", "v", "w", "x", "y", "z", "{", "|", "}", "~", "",
    "", "", "", "", "", "", "", "", "", "", "", "", "", "", "", "",
    "", "", "", "", "", "", "", "", "", "", "", "", "", "", "", "",
    " ", "¡", "¢", "£", "¤", "¥", "¦", "§", "¨", "©", "ª", "«", "¬", "­", "®", "¯",
    "°", "±", "²", "³", "´", "µ", "¶", "·", "¸", "¹", "º", "»", "¼", "½", "¾", "¿",
    "À", "Á", "Â", "Ã", "Ä", "Å", "Æ", "Ç", "È", "É", "Ê", "Ë", "Ì", "Í", "Î", "Ï",
    "Ð", "Ñ", "Ò", "Ó", "Ô", "Õ", "Ö", "×", "Ø", "Ù", "Ú", "Û", "Ü", "Ý", "Þ", "ß",
    "à", "á", "â", "ã", "ä", "å", "æ", "ç", "è", "é", "ê", "ë", "ì", "í", "î", "ï",
    "ð", "ñ", "ò", "ó", "ô", "õ", "ö", "÷", "ø", "ù", "ú", "û", "ü", "ý", "þ", "ÿ"
    >>

\* chr(n)
Chr(n) ==
    IF n < 256 THEN Latin1Chars[n + 1]
    ELSE IF n < 4096 THEN "U+0" \o Hex(n)
    ELSE "U+" \o Hex(n)

\* the characters of the code point ranges <<first, last>>
CharsOf(ranges) == UNION {{Chr(k) : k \in r[1]..r[2]} : r \in {ranges[i] : i \in 1..Len(ranges)}}

\* str.isspace(), and \s of a str pattern: code point ranges
SpaceRanges ==
    << <<9, 13>>, <<28, 32>>, <<133, 133>>, <<160, 160>>, <<5760, 5760>>, <<8192, 8202>>, <<8232, 8233>>, <<8239, 8239>>, <<8287, 8287>>, <<12288, 12288>> >>

\* the first of each run of ten decimal digits (str.isdecimal(), \d of a str
\* pattern); the digit of value v is v places after it
DecimalZeros ==
    <<
    48, 1632, 1776, 1984, 2406, 2534, 2662, 2790, 2918, 3046, 3174, 3302,
    3430, 3558, 3664, 3792, 3872, 4160, 4240, 6112, 6160, 6470, 6608, 6784,
    6800, 6992, 7088, 7232, 7248, 42528, 43216, 43264, 43472, 43504, 43600, 44016,
    65296, 66720, 68912, 69734, 69872, 69942, 70096, 70384, 70736, 70864, 71248, 71360,
    71472, 71904, 72016, 72784, 73040, 73120, 92768, 92864, 93008, 120782, 120792, 120802,
    120812, 120822, 123200, 123632, 125264, 130032
    >>
DecimalDigits == {<<Chr(DecimalZeros[i] + v), v>> : i \in 1..Len(DecimalZeros), v \in 0..9}

\* case mappings of one character to one character, as runs
\* <<first, last, step, offset>>: code point k of the run maps to k + offset
CaseRunCodes(r) == {r[1] + r[3] * j : j \in 0..((r[2] - r[1]) \div r[3])}
CasePairs(runs) ==
    UNION {{<<Chr(k), Chr(k + r[4])>> : k \in CaseRunCodes(r)} : r \in {runs[i] : i \in 1..Len(runs)}}
LowerRuns ==
    <<
    <<65, 90, 1, 32>>, <<192, 214, 1, 32>>, <<216, 222, 1, 32>>, <<256, 302, 2, 1>>, <<306, 310, 2, 1>>,
    <<313, 327, 2, 1>>, <<330, 374, 2, 1>>, <<376, 376, 1, -121>>, <<377, 381, 2, 1>>, <<385, 385, 1, 210>>,
    <<386, 388, 2, 1>>, <<390, 390, 1, 206>>, <<391, 391, 1, 1>>, <<393, 394, 1, 205>>, <<395, 395, 1, 1>>,
    <<398, 398, 1, 79>>, <<399, 399, 1, 202>>, <<400, 400, 1, 203>>, <<401, 401, 1, 1>>, <<403, 403, 1, 205>>,
    <<404, 404, 1, 207>>, <<406, 406, 1, 211>>, <<407, 407, 1, 209>>, <<408, 408, 1, 1>>, <<412, 412, 1, 211>>,
    <<413, 413, 1, 213>>, <<415, 415, 1, 214>>, <<416, 420, 2, 1>>, <<422, 422, 1, 218>>, <<423, 423, 1, 1>>,
    <<425, 425, 1, 218>>, <<428, 428, 1, 1>>, <<430, 430, 1, 218>>, <<431, 431, 1, 1>>, <<433, 434, 1, 217>>,
    <<435, 437, 2, 1>>, <<439, 439, 1, 219>>, <<440, 440, 1, 1>>, <<444, 444, 1, 1>>, <<452, 452, 1, 2>>,
    <<453, 453, 1, 1>>, <<455, 455, 1, 2>>, <<456, 456, 1, 1>>, <<458, 458, 1, 2>>, <<459, 475, 2, 1>>,
    <<478, 494, 2, 1>>, <<497, 497, 1, 2>>, <<498, 500, 2, 1>>, <<502, 502, 1, -97>>, <<503, 503, 1, -56>>,
    <<504, 542, 2, 1>>, <<544, 544, 1, -130>>, <<546, 562, 2, 1>>, <<570, 570, 1, 10795>>, <<571, 571, 1, 1>>,
    <<573, 573, 1, -163>>, <<574, 574, 1, 10792>>, <<577, 577, 1, 1>>, <<579, 579, 1, -195>>, <<580, 580, 1, 69>>,
    <<581, 581, 1, 71>>, <<582, 590, 2, 1>>, <<880, 882, 2, 1>>, <<886, 886, 1, 1>>, <<895, 895, 1, 116>>,
    <<902, 902, 1, 38>>, <<904, 906, 1, 37>>, <<908, 908, 1, 64>>, <<910, 911, 1, 63>>, <<913, 929, 1, 32>>,
    <<931, 939, 1, 32>>, <<975, 975, 1, 8>>, <<984, 1006, 2, 1>>, <<1012, 1012, 1, -60>>, <<1015, 1015, 1, 1>>,
    <<1017, 1017, 1, -7>>, <<1018, 1018, 1, 1>>, <<1021, 1023, 1, -130>>, <<1024, 1039, 1, 80>>, <<1040, 1071, 1, 32>>,
    <<1120, 1152, 2, 1>>, <<1162, 1214, 2, 1>>, <<1216, 1216, 1, 15>>, <<1217, 1229, 2, 1>>, <<1232, 1326, 2, 1>>,
    <<1329, 1366, 1, 48>>, <<4256, 4293, 1, 7264>>, <<4295, 4295, 1, 7264>>, <<4301, 4301, 1, 7264>>, <<5024, 5103, 1, 38864>>,
    <<5104, 5109, 1, 8>>, <<7312, 7354, 1, -3008>>, <<7357, 7359, 1, -3008>>, <<7680, 7828, 2, 1>>, <<7838, 7838, 1, -7615>>,
    <<7840, 7934, 2, 1>>, <<7944, 7951, 1, -8>>, <<7960, 7965, 1, -8>>, <<7976, 7983, 1, -8>>, <<7992, 7999, 1, -8>>,
    <<8008, 8013, 1, -8>>, <<8025, 8031, 2, -8>>, <<8040, 8047, 1, -8>>, <<8072, 8079, 1, -8>>, <<8088, 8095, 1, -8>>,
    <<8104, 8111, 1, -8>>, <<8120, 8121, 1, -8>>, <<8122, 8123, 1, -74>>, <<8124, 8124, 1, -9>>, <<8136, 8139, 1, -86>>,
    <<8140, 8140, 1, -9>>, <<8152, 8153, 1, -8>>, <<8154, 8155, 1, -100>>, <<8168, 8169, 1, -8>>, <<8170, 8171, 1, -112>>,
    <<8172, 8172, 1, -7>>, <<8184, 8185, 1, -128>>, <<8186, 8187, 1, -126>>, <<8188, 8188, 1, -9>>, <<8486, 8486, 1, -7517>>,
    <<8490, 8490, 1, -8383>>, <<8491, 8491, 1, -8262>>, <<8498, 8498, 1, 28>>, <<8544, 8559, 1, 16>>, <<8579, 8579, 1, 1>>,
    <<9398, 9423, 1, 26>>, <<11264, 11311, 1, 48>>, <<11360, 11360, 1, 1>>, <<11362, 11362, 1, -10743>>, <<11363, 11363, 1, -3814>>,
    <<11364, 11364, 1, -10727>>, <<11367, 11371, 2, 1>>, <<11373, 11373, 1, -10780>>, <<11374, 11374, 1, -10749>>, <<11375, 11375, 1, -10783>>,
    <<11376, 11376, 1, -10782>>, <<11378, 11378, 1, 1>>, <<11381, 11381, 1, 1>>, <<11390, 11391, 1, -10815>>, <<11392, 11490, 2, 1>>,
    <<11499, 11501, 2, 1>>, <<11506, 11506, 1, 1>>, <<42560, 42604, 2, 1>>, <<42624, 42650, 2, 1>>, <<42786, 42798, 2, 1>>,
    <<42802, 42862, 2, 1>>, <<42873, 42875, 2, 1>>, <<42877, 42877, 1, -35332>>, <<42878, 42886, 2, 1>>, <<42891, 42891, 1, 1>>,
    <<42893, 42893, 1, -42280>>, <<42896, 42898, 2, 1>>, <<42902, 42920, 2, 1>>, <<42922, 42922, 1, -42308>>, <<42923, 42923, 1, -42319>>,
    <<42924, 42924, 1, -42315>>, <<42925, 42925, 1, -42305>>, <<42926, 42926, 1, -42308>>, <<42928, 42928, 1, -42258>>, <<42929, 42929, 1, -42282>>,
    <<42930, 42930, 1, -42261>>, <<42931, 42931, 1, 928>>, <<42932, 42946, 2, 1>>, <<42948, 42948, 1, -48>>, <<42949, 42949, 1, -42307>>,
    <<42950, 42950, 1, -35384>>, <<42951, 42953, 2, 1>>, <<42960, 42960, 1, 1>>, <<42966, 42968, 2, 1>>, <<42997, 42997, 1, 1>>,
    <<65313, 65338, 1, 32>>, <<66560, 66599, 1, 40>>, <<66736, 66771, 1, 40>>, <<66928, 66938, 1, 39>>, <<66940, 66954, 1, 39>>,
    <<66956, 66962, 1, 39>>, <<66964, 66965, 1, 39>>, <<68736, 68786, 1, 64>>, <<71840, 71871, 1, 32>>, <<93760, 93791, 1, 32>>,
    <<125184, 125217, 1, 34>>
    >>
UpperRuns ==
    <<
    <<97, 122, 1, -32>>, <<181, 181, 1, 743>>, <<224, 246, 1, -32>>, <<248, 254, 1, -32>>, <<255, 255, 1, 121>>,
    <<257, 303, 2, -1>>, <<305, 305, 1, -232>>, <<307, 311, 2, -1>>, <<314, 328, 2, -1>>, <<331, 375, 2, -1>>,
    <<378, 382, 2, -1>>, <<383, 383, 1, -300>>, <<384, 384, 1, 195>>, <<387, 389, 2, -1>>, <<392, 392, 1, -1>>,
    <<396, 396, 1, -1>>, <<402, 402, 1, -1>>, <<405, 405, 1, 97>>, <<409, 409, 1, -1>>, <<410, 410, 1, 163>>,
    <<414, 414, 1, 130>>, <<417, 421, 2, -1>>, <<424, 424, 1, -1>>, <<429, 429, 1, -1>>, <<432, 432, 1, -1>>,
    <<436, 438, 2, -1>>, <<441, 441, 1, -1>>, <<445, 445, 1, -1>>, <<447, 447, 1, 56>>, <<453, 453, 1, -1>>,
    <<454, 454, 1, -2>>, <<456, 456, 1, -1>>, <<457, 457, 1, -2>>, <<459, 459, 1, -1>>, <<460, 460, 1, -2>>,
    <<462, 476, 2, -1>>, <<477, 477, 1, -79>>, <<479, 495, 2, -1>>, <<498, 498, 1, -1>>, <<499, 499, 1, -2>>,
    <<501, 501, 1, -1>>, <<505, 543, 2, -1>>, <<547, 563, 2, -1>>, <<572, 572, 1, -1>>, <<575, 576, 1, 10815>>,
    <<578, 578, 1, -1>>, <<583, 591, 2, -1>>, <<592, 592, 1, 10783>>, <<593, 593, 1, 10780>>, <<594, 594, 1, 10782>>,
    <<595, 595, 1, -210>>, <<596, 596, 1, -206>>, <<598, 599, 1, -205>>, <<601, 601, 1, -202>>, <<603, 603, 1, -203>>,
    <<604, 604, 1, 42319>>, <<608, 608, 1, -205>>, <<609, 609, 1, 42315>>, <<611, 611, 1, -207>>, <<613, 613, 1, 42280>>,
    <<614, 614, 1, 42308>>, <<616, 616, 1, -209>>, <<617, 617, 1, -211>>, <<618, 618, 1, 42308>>, <<619, 619, 1, 10743>>,
    <<620, 620, 1, 42305>>, <<623, 623, 1, -211>>, <<625, 625, 1, 10749>>, <<626, 626, 1, -213>>, <<629, 629, 1, -214>>,
    <<637, 637, 1, 10727>>, <<640, 640, 1, -218>>, <<642, 642, 1, 42307>>, <<643, 643, 1, -218>>, <<647, 647, 1, 42282>>,
    <<648, 648, 1, -218>>, <<649, 649, 1, -69>>, <<650, 651, 1, -217>>, <<652, 652, 1, -71>>, <<658, 658, 1, -219>>,
    <<669, 669, 1, 42261>>, <<670, 670, 1, 42258>>, <<837, 837, 1, 84>>, <<881, 883, 2, -1>>, <<887, 887, 1, -1>>,
    <<891, 893, 1, 130>>, <<940, 940, 1, -38>>, <<941, 943, 1, -37>>, <<945, 961, 1, -32>>, <<962, 962, 1, -31>>,
    <<963, 971, 1, -32>>, <<972, 972, 1, -64>>, <<973, 974, 1, -63>>, <<976, 976, 1, -62>>, <<977, 977, 1, -57>>,
    <<981, 981, 1, -47>>, <<982, 982, 1, -54>>, <<983, 983, 1, -8>>, <<985, 1007, 2, -1>>, <<1008, 1008, 1, -86>>,
    <<1009, 1009, 1, -80>>, <<1010, 1010, 1, 7>>, <<1011, 1011, 1, -116>>, <<1013, 1013, 1, -96>>, <<1016, 1016, 1, -1>>,
    <<1019, 1019, 1, -1>>, <<1072, 1103, 1, -32>>, <<1104, 1119, 1, -80>>, <<1121, 1153, 2, -1>>, <<1163, 1215, 2, -1>>,
    <<1218, 1230, 2, -1>>, <<1231, 1231, 1, -15>>, <<1233, 1327, 2, -1>>, <<1377, 1414, 1, -48>>, <<4304, 4346, 1, 3008>>,
    <<4349, 4351, 1, 3008>>, <<5112, 5117, 1, -8>>, <<7296, 7296, 1, -6254>>, <<7297, 7297, 1, -6253>>, <<7298, 7298, 1, -6244>>,
    <<7299, 7300, 1, -6242>>, <<7301, 7301, 1, -6243>>, <<7302, 7302, 1, -6236>>, <<7303, 7303, 1, -6181>>, <<7304, 7304, 1, 35266>>,
    <<7545, 7545, 1, 35332>>, <<7549, 7549, 1, 3814>>, <<7566, 7566, 1, 35384>>, <<7681, 7829, 2, -1>>, <<7835, 7835, 1, -59>>,
    <<7841, 7935, 2, -1>>, <<7936, 7943, 1, 8>>, <<7952, 7957, 1, 8>>, <<7968, 7975, 1, 8>>, <<7984, 7991, 1, 8>>,
    <<8000, 8005, 1, 8>>, <<8017, 8023, 2, 8>>, <<8032, 8039, 1, 8>>, <<8048, 8049, 1, 74>>, <<8050, 8053, 1, 86>>,
    <<8054, 8055, 1, 100>>, <<8056, 8057, 1, 128>>, <<8058, 8059, 1, 112>>, <<8060, 8061, 1, 126>>, <<8112, 8113, 1, 8>>,
    <<8126, 8126, 1, -7205>>, <<8144, 8145, 1, 8>>, <<8160, 8161, 1, 8>>, <<8165, 8165, 1, 7>>, <<8526, 8526, 1, -28>>,
    <<8560, 8575, 1, -16>>, <<8580, 8580, 1, -1>>, <<9424, 9449, 1, -26>>, <<11312, 11359, 1, -48>>, <<11361, 11361, 1, -1>>,
    <<11365, 11365, 1, -10795>>, <<11366, 11366, 1, -10792>>, <<11368, 11372, 2, -1>>, <<11379, 11379, 1, -1>>, <<11382, 11382, 1, -1>>,
    <<11393, 11491, 2, -1>>, <<11500, 11502, 2, -1>>, <<11507, 11507, 1, -1>>, <<11520, 11557, 1, -7264>>, <<11559, 11559, 1, -7264>>,
    <<11565, 11565, 1, -7264>>, <<42561, 42605, 2, -1>>, <<42625, 42651, 2, -1>>, <<42787, 42799, 2, -1>>, <<42803, 42863, 2, -1>>,
    <<42874, 42876, 2, -1>>, <<42879, 42887, 2, -1>>, <<42892, 42892, 1, -1>>, <<42897, 42899, 2, -1>>, <<42900, 42900, 1, 48>>,
    <<42903, 42921, 2, -1>>, <<42933, 42947, 2, -1>>, <<42952, 42954, 2, -1>>, <<42961, 42961, 1, -1>>, <<42967, 42969, 2, -1>>,
    <<42998, 42998, 1, -1>>, <<43859, 43859, 1, -928>>, <<43888, 43967, 1, -38864>>, <<65345, 65370, 1, -32>>, <<66600, 66639, 1, -40>>,
    <<66776, 66811, 1, -40>>, <<66967, 66977, 1, -39>>, <<66979, 66993, 1, -39>>, <<66995, 67001, 1, -39>>, <<67003, 67004, 1, -39>>,
    <<68800, 68850, 1, -64>>, <<71872, 71903, 1, -32>>, <<93792, 93823, 1, -32>>, <<125218, 125251, 1, -34>>
    >>
\* str.upper() of the characters that become more than one: <<code point, code points>>
UpperSpecial ==
    <<
    <<223, <<83, 83>>>>, <<329, <<700, 78>>>>, <<496, <<74, 780>>>>, <<912, <<921, 776, 769>>>>,
    <<944, <<933, 776, 769>>>>, <<1415, <<1333, 1362>>>>, <<7830, <<72, 817>>>>, <<7831, <<84, 776>>>>,
    <<7832, <<87, 778>>>>, <<7833, <<89, 778>>>>, <<7834, <<65, 702>>>>, <<8016, <<933, 787>>>>,
    <<8018, <<933, 787, 768>>>>, <<8020, <<933, 787, 769>>>>, <<8022, <<933, 787, 834>>>>, <<8064, <<7944, 921>>>>,
    <<8065, <<7945, 921>>>>, <<8066, <<7946, 921>>>>, <<8067, <<7947, 921>>>>, <<8068, <<7948, 921>>>>,
    <<8069, <<7949, 921>>>>, <<8070, <<7950, 921>>>>, <<8071, <<7951, 921>>>>, <<8072, <<7944, 921>>>>,
    <<8073, <<7945, 921>>>>, <<8074, <<7946, 921>>>>, <<8075, <<7947, 921>>>>, <<8076, <<7948, 921>>>>,
    <<8077, <<7949, 921>>>>, <<8078, <<7950, 921>>>>, <<8079, <<7951, 921>>>>, <<8080, <<7976, 921>>>>,
    <<8081, <<7977, 921>>>>, <<8082, <<7978, 921>>>>, <<8083, <<7979, 921>>>>, <<8084, <<7980, 921>>>>,
    <<8085, <<7981, 921>>>>, <<8086, <<7982, 921>>>>, <<8087, <<7983, 921>>>>, <<8088, <<7976, 921>>>>,
    <<8089, <<7977, 921>>>>, <<8090, <<7978, 921>>>>, <<8091, <<7979, 921>>>>, <<8092, <<7980, 921>>>>,
    <<8093, <<7981, 921>>>>, <<8094, <<7982, 921>>>>, <<8095, <<7983, 921>>>>, <<8096, <<8040, 921>>>>,
    <<8097, <<8041, 921>>>>, <<8098, <<8042, 921>>>>, <<8099, <<8043, 921>>>>, <<8100, <<8044, 921>>>>,
    <<8101, <<8045, 921>>>>, <<8102, <<8046, 921>>>>, <<8103, <<8047, 921>>>>, <<8104, <<8040, 921>>>>,
    <<8105, <<8041, 921>>>>, <<8106, <<8042, 921>>>>, <<8107, <<8043, 921>>>>, <<8108, <<8044, 921>>>>,
    <<8109, <<8045, 921>>>>, <<8110, <<8046, 921>>>>, <<8111, <<8047, 921>>>>, <<8114, <<8122, 921>>>>,
    <<8115, <<913, 921>>>>, <<8116, <<902, 921>>>>, <<8118, <<913, 834>>>>, <<8119, <<913, 834, 921>>>>,
    <<8124, <<913, 921>>>>, <<8130, <<8138, 921>>>>, <<8131, <<919, 921>>>>, <<8132, <<905, 921>>>>,
    <<8134, <<919, 834>>>>, <<8135, <<919, 834, 921>>>>, <<8140, <<919, 921>>>>, <<8146, <<921, 776, 768>>>>,
    <<8147, <<921, 776, 769>>>>, <<8150, <<921, 834>>>>, <<8151, <<921, 776, 834>>>>, <<8162, <<933, 776, 768>>>>,
    <<8163, <<933, 776, 769>>>>, <<8164, <<929, 787>>>>, <<8166, <<933, 834>>>>, <<8167, <<933, 776, 834>>>>,
    <<8178, <<8186, 921>>>>, <<8179, <<937, 921>>>>, <<8180, <<911, 921>>>>, <<8182, <<937, 834>>>>,
    <<8183, <<937, 834, 921>>>>, <<8188, <<937, 921>>>>, <<64256, <<70, 70>>>>, <<64257, <<70, 73>>>>,
    <<64258, <<70, 76>>>>, <<64259, <<70, 70, 73>>>>, <<64260, <<70, 70, 76>>>>, <<64261, <<83, 84>>>>,
    <<64262, <<83, 84>>>>, <<64275, <<1348, 1350>>>>, <<64276, <<1348, 1333>>>>, <<64277, <<1348, 1339>>>>,
    <<64278, <<1358, 1350>>>>, <<64279, <<1348, 1341>>>>
    >>

\* the final sigma rule of str.lower(): the cased characters, and the
\* characters the rule steps over (case-ignorable), as code point ranges
CasedRanges ==
    <<
    <<65, 90>>, <<97, 122>>, <<170, 170>>, <<181, 181>>, <<186, 186>>, <<192, 214>>,
    <<216, 246>>, <<248, 442>>, <<444, 447>>, <<452, 659>>, <<661, 687>>, <<880, 883>>,
    <<886, 887>>, <<891, 893>>, <<895, 895>>, <<902, 902>>, <<904, 906>>, <<908, 908>>,
    <<910, 929>>, <<931, 1013>>, <<1015, 1153>>, <<1162, 1327>>, <<1329, 1366>>, <<1376, 1416>>,
    <<4256, 4293>>, <<4295, 4295>>, <<4301, 4301>>, <<4304, 4346>>, <<4349, 4351>>, <<5024, 5109>>,
    <<5112, 5117>>, <<7296, 7304>>, <<7312, 7354>>, <<7357, 7359>>, <<7424, 7467>>, <<7531, 7543>>,
    <<7545, 7578>>, <<7680, 7957>>, <<7960, 7965>>, <<7968, 8005>>, <<8008, 8013>>, <<8016, 8023>>,
    <<8025, 8025>>, <<8027, 8027>>, <<8029, 8029>>, <<8031, 8061>>, <<8064, 8116>>, <<8118, 8124>>,
    <<8126, 8126>>, <<8130, 8132>>, <<8134, 8140>>, <<8144, 8147>>, <<8150, 8155>>, <<8160, 8172>>,
    <<8178, 8180>>, <<8182, 8188>>, <<8450, 8450>>, <<8455, 8455>>, <<8458, 8467>>, <<8469, 8469>>,
    <<8473, 8477>>, <<8484, 8484>>, <<8486, 8486>>, <<8488, 8488>>, <<8490, 8493>>, <<8495, 8500>>,
    <<8505, 8505>>, <<8508, 8511>>, <<8517, 8521>>, <<8526, 8526>>, <<8544, 8575>>, <<8579, 8580>>,
    <<9398, 9449>>, <<11264, 11387>>, <<11390, 11492>>, <<11499, 11502>>, <<11506, 11507>>, <<11520, 11557>>,
    <<11559, 11559>>, <<11565, 11565>>, <<42560, 42605>>, <<42624, 42651>>, <<42786, 42863>>, <<42865, 42887>>,
    <<42891, 42894>>, <<42896, 42954>>, <<42960, 42961>>, <<42963, 42963>>, <<42965, 42969>>, <<42997, 42998>>,
    <<43002, 43002>>, <<43824, 43866>>, <<43872, 43880>>, <<43888, 43967>>, <<64256, 64262>>, <<64275, 64279>>,
    <<65313, 65338>>, <<65345, 65370>>, <<66560, 66639>>, <<66736, 66771>>, <<66776, 66811>>, <<66928, 66938>>,
    <<66940, 66954>>, <<66956, 66962>>, <<66964, 66965>>, <<66967, 66977>>, <<66979, 66993>>, <<66995, 67001>>,
    <<67003, 67004>>, <<68736, 68786>>, <<68800, 68850>>, <<71840, 71903>>, <<93760, 93823>>, <<119808, 119892>>,
    <<119894, 119964>>, <<119966, 119967>>, <<119970, 119970>>, <<119973, 119974>>, <<119977, 119980>>, <<119982, 119993>>,
    <<119995, 119995>>, <<119997, 120003>>, <<120005, 120069>>, <<120071, 120074>>, <<120077, 120084>>, <<120086, 120092>>,
    <<120094, 120121>>, <<120123, 120126>>, <<120128, 120132>>, <<120134, 120134>>, <<120138, 120144>>, <<120146, 120485>>,
    <<120488, 120512>>, <<120514, 120538>>, <<120540, 120570>>, <<120572, 120596>>, <<120598, 120628>>, <<120630, 120654>>,
    <<120656, 120686>>, <<120688, 120712>>, <<120714, 120744>>, <<120746, 120770>>, <<120772, 120779>>, <<122624, 122633>>,
    <<122635, 122654>>, <<125184, 125251>>, <<127280, 127305>>, <<127312, 127337>>, <<127344, 127369>>
    >>
CaseIgnorableRanges ==
    <<
    <<39, 39>>, <<46, 46>>, <<58, 58>>, <<94, 94>>, <<96, 96>>, <<168, 168>>,
    <<173, 173>>, <<175, 175>>, <<180, 180>>, <<183, 184>>, <<688, 879>>, <<884, 885>>,
    <<890, 890>>, <<900, 901>>, <<903, 903>>, <<1155, 1161>>, <<1369, 1369>>, <<1375, 1375>>,
    <<1425, 1469>>, <<1471, 1471>>, <<1473, 1474>>, <<1476, 1477>>, <<1479, 1479>>, <<1524, 1524>>,
    <<1536, 1541>>, <<1552, 1562>>, <<1564, 1564>>, <<1600, 1600>>, <<1611, 1631>>, <<1648, 1648>>,
    <<1750, 1757>>, <<1759, 1768>>, <<1770, 1773>>, <<1807, 1807>>, <<1809, 1809>>, <<1840, 1866>>,
    <<1958, 1968>>, <<2027, 2037>>, <<2042, 2042>>, <<2045, 2045>>, <<2070, 2093>>, <<2137, 2139>>,
    <<2184, 2184>>, <<2192, 2193>>, <<2200, 2207>>, <<2249, 2306>>, <<2362, 2362>>, <<2364, 2364>>,
    <<2369, 2376>>, <<2381, 2381>>, <<2385, 2391>>, <<2402, 2403>>, <<2417, 2417>>, <<2433, 2433>>,
    <<2492, 2492>>, <<2497, 2500>>, <<2509, 2509>>, <<2530, 2531>>, <<2558, 2558>>, <<2561, 2562>>,
    <<2620, 2620>>, <<2625, 2626>>, <<2631, 2632>>, <<2635, 2637>>, <<2641, 2641>>, <<2672, 2673>>,
    <<2677, 2677>>, <<2689, 2690>>, <<2748, 2748>>, <<2753, 2757>>, <<2759, 2760>>, <<2765, 2765>>,
    <<2786, 2787>>, <<2810, 2815>>, <<2817, 2817>>, <<2876, 2876>>, <<2879, 2879>>, <<2881, 2884>>,
    <<2893, 2893>>, <<2901, 2902>>, <<2914, 2915>>, <<2946, 2946>>, <<3008, 3008>>, <<3021, 3021>>,
    <<3072, 3072>>, <<3076, 3076>>, <<3132, 3132>>, <<3134, 3136>>, <<3142, 3144>>, <<3146, 3149>>,
    <<3157, 3158>>, <<3170, 3171>>, <<3201, 3201>>, <<3260, 3260>>, <<3263, 3263>>, <<3270, 3270>>,
    <<3276, 3277>>, <<3298, 3299>>, <<3328, 3329>>, <<3387, 3388>>, <<3393, 3396>>, <<3405, 3405>>,
    <<3426, 3427>>, <<3457, 3457>>, <<3530, 3530>>, <<3538, 3540>>, <<3542, 3542>>, <<3633, 3633>>,
    <<3636, 3642>>, <<3654, 3662>>, <<3761, 3761>>, <<3764, 3772>>, <<3782, 3782>>, <<3784, 3789>>,
    <<3864, 3865>>, <<3893, 3893>>, <<3895, 3895>>, <<3897, 3897>>, <<3953, 3966>>, <<3968, 3972>>,
    <<3974, 3975>>, <<3981, 3991>>, <<3993, 4028>>, <<4038, 4038>>, <<4141, 4144>>, <<4146, 4151>>,
    <<4153, 4154>>, <<4157, 4158>>, <<4184, 4185>>, <<4190, 4192>>, <<4209, 4212>>, <<4226, 4226>>,
    <<4229, 4230>>, <<4237, 4237>>, <<4253, 4253>>, <<4348, 4348>>, <<4957, 4959>>, <<5906, 5908>>,
    <<5938, 5939>>, <<5970, 5971>>, <<6002, 6003>>, <<6068, 6069>>, <<6071, 6077>>, <<6086, 6086>>,
    <<6089, 6099>>, <<6103, 6103>>, <<6109, 6109>>, <<6155, 6159>>, <<6211, 6211>>, <<6277, 6278>>,
    <<6313, 6313>>, <<6432, 6434>>, <<6439, 6440>>, <<6450, 6450>>, <<6457, 6459>>, <<6679, 6680>>,
    <<6683, 6683>>, <<6742, 6742>>, <<6744, 6750>>, <<6752, 6752>>, <<6754, 6754>>, <<6757, 6764>>,
    <<6771, 6780>>, <<6783, 6783>>, <<6823, 6823>>, <<6832, 6862>>, <<6912, 6915>>, <<6964, 6964>>,
    <<6966, 6970>>, <<6972, 6972>>, <<6978, 6978>>, <<7019, 7027>>, <<7040, 7041>>, <<7074, 7077>>,
    <<7080, 7081>>, <<7083, 7085>>, <<7142, 7142>>, <<7144, 7145>>, <<7149, 7149>>, <<7151, 7153>>,
    <<7212, 7219>>, <<7222, 7223>>, <<7288, 7293>>, <<7376, 7378>>, <<7380, 7392>>, <<7394, 7400>>,
    <<7405, 7405>>, <<7412, 7412>>, <<7416, 7417>>, <<7468, 7530>>, <<7544, 7544>>, <<7579, 7679>>,
    <<8125, 8125>>, <<8127, 8129>>, <<8141, 8143>>, <<8157, 8159>>, <<8173, 8175>>, <<8189, 8190>>,
    <<8203, 8207>>, <<8216, 8217>>, <<8228, 8228>>, <<8231, 8231>>, <<8234, 8238>>, <<8288, 8292>>,
    <<8294, 8303>>, <<8305, 8305>>, <<8319, 8319>>, <<8336, 8348>>, <<8400, 8432>>, <<11388, 11389>>,
    <<11503, 11505>>, <<11631, 11631>>, <<11647, 11647>>, <<11744, 11775>>, <<11823, 11823>>, <<12293, 12293>>,
    <<12330, 12333>>, <<12337, 12341>>, <<12347, 12347>>, <<12441, 12446>>, <<12540, 12542>>, <<40981, 40981>>,
    <<42232, 42237>>, <<42508, 42508>>, <<42607, 42610>>, <<42612, 42621>>, <<42623, 42623>>, <<42652, 42655>>,
    <<42736, 42737>>, <<42752, 42785>>, <<42864, 42864>>, <<42888, 42890>>, <<42994, 42996>>, <<43000, 43001>>,
    <<43010, 43010>>, <<43014, 43014>>, <<43019, 43019>>, <<43045, 43046>>, <<43052, 43052>>, <<43204, 43205>>,
    <<43232, 43249>>, <<43263, 43263>>, <<43302, 43309>>, <<43335, 43345>>, <<43392, 43394>>, <<43443, 43443>>,
    <<43446, 43449>>, <<43452, 43453>>, <<43471, 43471>>, <<43493, 43494>>, <<43561, 43566>>, <<43569, 43570>>,
    <<43573, 43574>>, <<43587, 43587>>, <<43596, 43596>>, <<43632, 43632>>, <<43644, 43644>>, <<43696, 43696>>,
    <<43698, 43700>>, <<43703, 43704>>, <<43710, 43711>>, <<43713, 43713>>, <<43741, 43741>>, <<43756, 43757>>,
    <<43763, 43764>>, <<43766, 43766>>, <<43867, 43871>>, <<43881, 43883>>, <<44005, 44005>>, <<44008, 44008>>,
    <<44013, 44013>>, <<64286, 64286>>, <<64434, 64450>>, <<65024, 65039>>, <<65043, 65043>>, <<65056, 65071>>,
    <<65106, 65106>>, <<65109, 65109>>, <<65279, 65279>>, <<65287, 65287>>, <<65294, 65294>>, <<65306, 65306>>,
    <<65342, 65342>>, <<65344, 65344>>, <<65392, 65392>>, <<65438, 65439>>, <<65507, 65507>>, <<65529, 65531>>,
    <<66045, 66045>>, <<66272, 66272>>, <<66422, 66426>>, <<67456, 67461>>, <<67463, 67504>>, <<67506, 67514>>,
    <<68097, 68099>>, <<68101, 68102>>, <<68108, 68111>>, <<68152, 68154>>, <<68159, 68159>>, <<68325, 68326>>,
    <<68900, 68903>>, <<69291, 69292>>, <<69446, 69456>>, <<69506, 69509>>, <<69633, 69633>>, <<69688, 69702>>,
    <<69744, 69744>>, <<69747, 69748>>, <<69759, 69761>>, <<69811, 69814>>, <<69817, 69818>>, <<69821, 69821>>,
    <<69826, 69826>>, <<69837, 69837>>, <<69888, 69890>>, <<69927, 69931>>, <<69933, 69940>>, <<70003, 70003>>,
    <<70016, 70017>>, <<70070, 70078>>, <<70089, 70092>>, <<70095, 70095>>, <<70191, 70193>>, <<70196, 70196>>,
    <<70198, 70199>>, <<70206, 70206>>, <<70367, 70367>>, <<70371, 70378>>, <<70400, 70401>>, <<70459, 70460>>,
    <<70464, 70464>>, <<70502, 70508>>, <<70512, 70516>>, <<70712, 70719>>, <<70722, 70724>>, <<70726, 70726>>,
    <<70750, 70750>>, <<70835, 70840>>, <<70842, 70842>>, <<70847, 70848>>, <<70850, 70851>>, <<71090, 71093>>,
    <<71100, 71101>>, <<71103, 71104>>, <<71132, 71133>>, <<71219, 71226>>, <<71229, 71229>>, <<71231, 71232>>,
    <<71339, 71339>>, <<71341, 71341>>, <<71344, 71349>>, <<71351, 71351>>, <<71453, 71455>>, <<71458, 71461>>,
    <<71463, 71467>>, <<71727, 71735>>, <<71737, 71738>>, <<71995, 71996>>, <<71998, 71998>>, <<72003, 72003>>,
    <<72148, 72151>>, <<72154, 72155>>, <<72160, 72160>>, <<72193, 72202>>, <<72243, 72248>>, <<72251, 72254>>,
    <<72263, 72263>>, <<72273, 72278>>, <<72281, 72283>>, <<72330, 72342>>, <<72344, 72345>>, <<72752, 72758>>,
    <<72760, 72765>>, <<72767, 72767>>, <<72850, 72871>>, <<72874, 72880>>, <<72882, 72883>>, <<72885, 72886>>,
    <<73009, 73014>>, <<73018, 73018>>, <<73020, 73021>>, <<73023, 73029>>, <<73031, 73031>>, <<73104, 73105>>,
    <<73109, 73109>>, <<73111, 73111>>, <<73459, 73460>>, <<78896, 78904>>, <<92912, 92916>>, <<92976, 92982>>,
    <<92992, 92995>>, <<94031, 94031>>, <<94095, 94111>>, <<94176, 94177>>, <<94179, 94180>>, <<110576, 110579>>,
    <<110581, 110587>>, <<110589, 110590>>, <<113821, 113822>>, <<113824, 113827>>, <<118528, 118573>>, <<118576, 118598>>,
    <<119143, 119145>>, <<119155, 119170>>, <<119173, 119179>>, <<119210, 119213>>, <<119362, 119364>>, <<121344, 121398>>,
    <<121403, 121452>>, <<121461, 121461>>, <<121476, 121476>>, <<121499, 121503>>, <<121505, 121519>>, <<122880, 122886>>,
    <<122888, 122904>>, <<122907, 122913>>, <<122915, 122916>>, <<122918, 122922>>, <<123184, 123197>>, <<123566, 123566>>,
    <<123628, 123631>>, <<125136, 125142>>, <<125252, 125259>>, <<127995, 127999>>, <<917505, 917505>>, <<917536, 917631>>,
    <<917760, 917999>>
    >>

\* \s, and the characters str.strip() removes
Whitespace == CharsOf(SpaceRanges)

\* \d
DigitSet == {p[1] : p \in DecimalDigits}

LowerPairs == CasePairs(LowerRuns)
LowerDomain == {p[1] : p \in LowerPairs}
UpperPairs == CasePairs(UpperRuns)
UpperDomain == {p[1] : p \in UpperPairs}
UpperSpecialPairs ==
    {<<Chr(UpperSpecial[i][1]), [k \in 1..Len(UpperSpecial[i][2]) |-> Chr(UpperSpecial[i][2][k])]>> :
        i \in 1..Len(UpperSpecial)}
UpperSpecialDomain == {p[1] : p \in UpperSpecialPairs}
CasedSet == CharsOf(CasedRanges)
CaseIgnorableSet == CharsOf(CaseIgnorableRanges)

\* str.lower() / str.upper() of a character that stays one character
LowerChar(c) ==
    IF c \in UpperSet THEN LowerChars[IndexIn(c, UpperChars)]
    ELSE IF c \in LowerDomain THEN (CHOOSE p \in LowerPairs : p[1] = c)[2]
    ELSE c
UpperChar(c) ==
    IF c \in LowerSet THEN UpperChars[IndexIn(c, LowerChars)]
    ELSE IF c \in UpperDomain THEN (CHOOSE p \in UpperPairs : p[1] = c)[2]
    ELSE c

\* the capital sigma at s[i] ends a word: the nearest character before it that
\* is not case-ignorable is cased, and the nearest such character after it,
\* if any, is not
FinalSigma(s, i) ==
    LET before == {j \in 1..(i - 1) : s[j] \notin CaseIgnorableSet}
        after  == {j \in (i + 1)..Len(s) : s[j] \notin CaseIgnorableSet}
    IN  /\ before # {}
        /\ s[CHOOSE j \in before : \A k \in before : k <= j] \in CasedSet
        /\ \/ after = {}
           \/ s[CHOOSE j \in after : \A k \in after : j <= k] \notin CasedSet

\* str.lower(): one character for each, but two for the capital I with dot
\* (U+0130), and the capital sigma (U+03A3) by its place in the word
LowerAt(s, i) ==
    IF s[i] = "U+03A3" THEN IF FinalSigma(s, i) THEN <<"U+03C2">> ELSE <<"U+03C3">>
    ELSE IF s[i] = "U+0130" THEN <<"i", "U+0307">>
    ELSE <<LowerChar(s[i])>>
Lower(s) ==
    IF \A i \in 1..Len(s) : s[i] \notin {"U+03A3", "U+0130"}
    THEN [i \in 1..Len(s) |-> LowerChar(s[i])]
    ELSE Concat([i \in 1..Len(s) |-> LowerAt(s, i)])

\* str.upper(): one character for each, but the characters of UpperSpecial
UpperAt(s, i) ==
    IF s[i] \in UpperSpecialDomain THEN (CHOOSE p \in UpperSpecialPairs : p[1] = s[i])[2]
    ELSE <<UpperChar(s[i])>>
Upper(s) ==
    IF \A i \in 1..Len(s) : s[i] \notin UpperSpecialDomain
    THEN [i \in 1..Len(s) |-> UpperChar(s[i])]
    ELSE Concat([i \in 1..Len(s) |-> UpperAt(s, i)])

\* re.IGNORECASE on a pattern of ASCII letters: a letter of the pattern matches
\* its two cases and, for i, s and k, the dotted capital I and dotless small i,
\* the long s and the Kelvin sign.  IgnoreCase(s) writes every character a
\* letter matches as the capital letter.
IgnoreCaseChar(c) ==
    IF c \in LowerSet THEN UpperChars[IndexIn(c, LowerChars)]
    ELSE IF c \in {"U+0130", "U+0131"} THEN "I"
    ELSE IF c = "U+017F" THEN "S"
    ELSE IF c = "U+212A" THEN "K"
    ELSE c
IgnoreCase(s) == [i \in 1..Len(s) |-> IgnoreCaseChar(s[i])]

\* s[p:].startswith(needle), p counted from 1
StartsAt(s, p, needle) ==
    /\ p >= 1
    /\ p + Len(needle) - 1 <= Len(s)
    /\ \A k \in 1..Len(needle) : s[p + k - 1] = needle[k]

\* needle in s
Contains(s, needle) == \E p \in 1..(Len(s) + 1) : StartsAt(s, p, needle)

\* '\n'.join(parts)
RECURSIVE JoinLines(_)
JoinLines(parts) ==
    IF Len(parts) = 0 THEN <<>>
    ELSE IF Len(parts) = 1 THEN parts[1]
    ELSE parts[1] \o <<"\n">> \o JoinLines(Tail(parts))

(* ------------------------------------------------------------------ *)
(* Bank detector: PDFTransactionParser.detect_bank_type                *)
(* ------------------------------------------------------------------ *)
\* the string literals of detect_bank_type
DetectorText ==
    [
      statement_of_credit_card_account |-> <<"s","t","a","t","e","m","e","n","t"," ","o","f"," ","c","r","e","d","i","t"," ","c","a","r","d"," ","a","c","c","o","u","n","t">>,
      penyata_akaun_kad_kredit         |-> <<"p","e","n","y","a","t","a"," ","a","k","a","u","n"," ","k","a","d"," ","k","r","e","d","i","t">>,
      credit_card_statement            |-> <<"c","r","e","d","i","t"," ","c","a","r","d"," ","s","t","a","t","e","m","e","n","t">>,
      card_statement                   |-> <<"c","a","r","d"," ","s","t","a","t","e","m","e","n","t">>,
      tax_invoice                      |-> <<"t","a","x"," ","i","n","v","o","i","c","e">>,
      invois_cukai                     |-> <<"i","n","v","o","i","s"," ","c","u","k","a","i">>,
      gst_registration_no              |-> <<"g","s","t"," ","r","e","g","i","s","t","r","a","t","i","o","n"," ","n","o">>,
      maybank                          |-> <<"m","a","y","b","a","n","k">>,
      malayan_banking                  |-> <<"m","a","l","a","y","a","n"," ","b","a","n","k","i","n","g">>,
      maybank_islamic                  |-> <<"m","a","y","b","a","n","k"," ","i","s","l","a","m","i","c">>,
      cimb                             |-> <<"c","i","m","b">>,
      commerce_international           |-> <<"c","o","m","m","e","r","c","e"," ","i","n","t","e","r","n","a","t","i","o","n","a","l">>,
      alliance                         |-> <<"a","l","l","i","a","n","c","e">>,
      alliance_bank                    |-> <<"a","l","l","i","a","n","c","e"," ","b","a","n","k">>,
      credit_card                      |-> <<"c","r","e","d","i","t"," ","c","a","r","d">>,
      statement                        |-> <<"s","t","a","t","e","m","e","n","t">>,
      mastercard                       |-> <<"m","a","s","t","e","r","c","a","r","d">>,
      visa                             |-> <<"v","i","s","a">>
    ]
\* text fragments the detector runs are made of; the last three hold a
\* letter that is not ASCII: the Kelvin sign, whose lower case is k, and the
\* dotless i, whose upper case is I
Fragment ==
    [
      Maybank         |-> <<"M","a","y","b","a","n","k">>,
      Malayan_Banking |-> <<"M","a","l","a","y","a","n"," ","B","a","n","k","i","n","g">>,
      CIMB            |-> <<"C","I","M","B">>,
      Alliance_Bank   |-> <<"A","l","l","i","a","n","c","e"," ","B","a","n","k">>,
      TAX_INVOICE     |-> <<"T","A","X"," ","I","N","V","O","I","C","E">>,
      Card_Statement  |-> <<"C","a","r","d"," ","S","t","a","t","e","m","e","n","t">>,
      Visa            |-> <<"V","i","s","a">>,
      Statement       |-> <<"S","t","a","t","e","m","e","n","t">>,
      Mastercard      |-> <<"M","a","s","t","e","r","c","a","r","d">>,
      Credit_Card     |-> <<"C","r","e","d","i","t"," ","C","a","r","d">>,
      Penyata_Kelvin  |-> <<"P","E","N","Y","A","T","A"," ","A","K","A","U","N"," ","U+212A","A","D"," ","K","R","E","D","I","T">>,
      Maybank_Kelvin  |-> <<"M","A","Y","B","A","N","U+212A">>,
      Cimb_dotless    |-> <<"c","U+0131","m","b">>
    ]

\* keys of self.supported_banks
supported_banks == {"maybank", "cimb", "alliance", "credit_card"}

credit_card_indicators ==
    << DetectorText.statement_of_credit_card_account, DetectorText.penyata_akaun_kad_kredit,
       DetectorText.credit_card_statement, DetectorText.card_statement, DetectorText.tax_invoice,
       DetectorText.invois_cukai, DetectorText.gst_registration_no >>

\* any(indicator in text_lower for indicator in credit_card_indicators)
HasCreditCardIndicator(text_lower) ==
    \E i \in 1..Len(credit_card_indicators) : Contains(text_lower, credit_card_indicators[i])

HasMaybankKeyword(text_lower) ==
    \/ Contains(text_lower, DetectorText.maybank)
    \/ Contains(text_lower, DetectorText.malayan_banking)
    \/ Contains(text_lower, DetectorText.maybank_islamic)

HasCimbKeyword(text_lower) ==
    \/ Contains(text_lower, DetectorText.cimb)
    \/ Contains(text_lower, DetectorText.commerce_international)

HasAllianceKeyword(text_lower) ==
    \/ Contains(text_lower, DetectorText.alliance)
    \/ Contains(text_lower, DetectorText.alliance_bank)

HasGenericCardPair(text_lower) ==
    \/ (Contains(text_lower, DetectorText.credit_card) /\ Contains(text_lower, DetectorText.statement))
    \/ (Contains(text_lower, DetectorText.mastercard) /\ Contains(text_lower, DetectorText.statement))
    \/ (Contains(text_lower, DetectorText.visa) /\ Contains(text_lower, DetectorText.statement))

\* mutation: bank names are looked up before the credit-card indicators
DetectLowered_names_first(text_lower) ==
    IF HasMaybankKeyword(text_lower) THEN "maybank"
    ELSE IF HasCimbKeyword(text_lower) THEN "cimb"
    ELSE IF HasAllianceKeyword(text_lower) THEN "alliance"
    ELSE IF HasCreditCardIndicator(text_lower) THEN "credit_card"
    ELSE IF HasGenericCardPair(text_lower) THEN "credit_card"
    ELSE "maybank"

\* mutation: the generic card pair is looked up before the bank names
DetectLowered_generic_first(text_lower) ==
    IF HasCreditCardIndicator(text_lower) THEN "credit_card"
    ELSE IF HasGenericCardPair(text_lower) THEN "credit_card"
    ELSE IF HasMaybankKeyword(text_lower) THEN "maybank"
    ELSE IF HasCimbKeyword(text_lower) THEN "cimb"
    ELSE IF HasAllianceKeyword(text_lower) THEN "alliance"
    ELSE "maybank"

\* the ordered rules applied to the lower-cased text
DetectLowered(text_lower) ==
    IF HasCreditCardIndicator(text_lower) THEN "credit_card"
    ELSE IF HasMaybankKeyword(text_lower) THEN "maybank"
    ELSE IF HasCimbKeyword(text_lower) THEN "cimb"
    ELSE IF HasAllianceKeyword(text_lower) THEN "alliance"
    ELSE IF HasGenericCardPair(text_lower) THEN "credit_card"
    ELSE "maybank"

\* mutation: the keywords are looked up in the text as given, not lower-cased
detect_bank_type_no_lower(pdf_text) == DetectLowered(pdf_text)

detect_bank_type(pdf_text) == DetectLowered(Lower(pdf_text))

(* ------------------------------------------------------------------ *)
(* Strings, part 2: what the parsers' regular expressions and          *)
(* conversions do                                                      *)
(* ------------------------------------------------------------------ *)
\* Python None where a string is expected (no string is this sequence:
\* a string's elements are single characters)
None == <<"None">>

\* Let([x \in {v} |-> e]) is e with x standing for the value v: a local
\* variable, assigned once
Let(f) == f[CHOOSE x \in DOMAIN f : TRUE]

Min(S) == CHOOSE x \in S : \A y \in S : x <= y
Max(S) == CHOOSE x \in S : \A y \in S : x >= y

\* s[a-1:b] of Python, both ends counted from 1 and included
Slice(s, a, b) == IF a > b THEN <<>> ELSE SubSeq(s, a, b)

\* str.strip()
Strip(s) ==
    LET keep == {i \in 1..Len(s) : s[i] \notin Whitespace}
    IN  IF keep = {} THEN <<>> ELSE Slice(s, Min(keep), Max(keep))

\* a + " " + b
JoinSpace(a, b) == a \o <<" ">> \o b

\* s.replace(c, '') for one character c
RemoveChar(s, c) == SelectSeq(s, LAMBDA x : x # c)

\* first position >= p whose character is outside Class (Len(s)+1 if none):
\* where a greedy run of Class characters that starts at p ends
RunEnd(s, p, Class) ==
    Min({q \in p..(Len(s) + 1) : q = Len(s) + 1 \/ s[q] \notin Class})

AllIn(s, Class) == \A i \in 1..Len(s) : s[i] \in Class

\* the value of a decimal digit
DigitVal(c) ==
    IF c \in AsciiDigitSet THEN IndexIn(c, DigitChars) - 1
    ELSE (CHOOSE p \in DecimalDigits : p[1] = c)[2]

\* int(ds) for a string of decimal digits (0 for the empty string)
RECURSIVE DigitsToInt(_)
DigitsToInt(ds) ==
    IF Len(ds) = 0 THEN 0
    ELSE DigitsToInt(SubSeq(ds, 1, Len(ds) - 1)) * 10 + DigitVal(ds[Len(ds)])

Pow10(n) == CASE n = 0 -> 1 [] n = 1 -> 10 [] n = 2 -> 100 [] n = 3 -> 1000 [] OTHER -> 10000

\* '%0<width>d' % n
ZeroPad(n, width) == [i \in 1..width |-> DigitChars[((n \div Pow10(width - i)) % 10) + 1]]

\* [\d,]+\.\d{2} : position after the match that starts at p, 0 if none.
\* The run [\d,]+ cannot give characters back: it must stop right before the point.
AmountChars == DigitSet \cup {","}
AmtEnd(s, p) ==
    IF p < 1 \/ p > Len(s) THEN 0
    ELSE LET e == RunEnd(s, p, AmountChars) IN
         IF /\ e > p
            /\ e + 2 <= Len(s)
            /\ s[e] = "."
            /\ s[e + 1] \in DigitSet
            /\ s[e + 2] \in DigitSet
         THEN e + 3 ELSE 0

\* float(tok.replace(',', '')) in cents, tok matching [\d,]+\.\d{2}
AmountCents(tok) ==
    LET t == RemoveChar(tok, ",")
        n == Len(t)
    IN  DigitsToInt(Slice(t, 1, n - 3)) * 100 + DigitsToInt(Slice(t, n - 1, n))

\* calendar
IsLeap(y) == (y % 4 = 0 /\ y % 100 # 0) \/ y % 400 = 0
DaysInMonth(y, m) ==
    CASE m \in {1, 3, 5, 7, 8, 10, 12} -> 31
      [] m \in {4, 6, 9, 11} -> 30
      [] OTHER -> IF IsLeap(y) THEN 29 ELSE 28

\* the directives of strptime are regular expressions:
\* %d is 3[0-1]|[1-2]\d|0[1-9]|[1-9]| [1-9], %m is 1[0-2]|0[1-9]|[1-9],
\* %Y is \d\d\d\d
NonZeroDigits == AsciiDigitSet \ {"0"}
DayDirective(dd) ==
    \/ Len(dd) = 2 /\ dd[1] = "3" /\ dd[2] \in {"0", "1"}
    \/ Len(dd) = 2 /\ dd[1] \in {"1", "2"} /\ dd[2] \in DigitSet
    \/ Len(dd) = 2 /\ dd[1] \in {"0", " "} /\ dd[2] \in NonZeroDigits
    \/ Len(dd) = 1 /\ dd[1] \in NonZeroDigits
MonthDirective(mm) ==
    \/ Len(mm) = 2 /\ mm[1] = "1" /\ mm[2] \in {"0", "1", "2"}
    \/ Len(mm) = 2 /\ mm[1] = "0" /\ mm[2] \in NonZeroDigits
    \/ Len(mm) = 1 /\ mm[1] \in NonZeroDigits
YearDirective(yyyy) == Len(yyyy) = 4 /\ AllIn(yyyy, DigitSet)

\* int(found_dict['d']): the day of a text that %d matches
DayValue(dd) == DigitsToInt(IF dd[1] = " " THEN Tail(dd) ELSE dd)

\* datetime.strptime(dd + "/" + mm + "/" + yyyy, '%d/%m/%Y') succeeds: each
\* part matches its directive and the day is one of the calendar
DmyValid(dd, mm, yyyy) ==
    /\ DayDirective(dd) /\ MonthDirective(mm) /\ YearDirective(yyyy)
    /\ DigitsToInt(yyyy) >= 1
    /\ DayValue(dd) <= DaysInMonth(DigitsToInt(yyyy), DigitsToInt(mm))

\* date.isoformat() of the parsed date: the year is padded to four digits
IsoFormat(dd, mm, yyyy) ==
    ZeroPad(DigitsToInt(yyyy), 4) \o <<"-">> \o ZeroPad(DigitsToInt(mm), 2)
        \o <<"-">> \o ZeroPad(DayValue(dd), 2)

\* '%d' % n for n >= 0
RECURSIVE Decimal(_)
Decimal(n) ==
    IF n < 10 THEN <<DigitChars[n + 1]>>
    ELSE Decimal(n \div 10) \o <<DigitChars[(n % 10) + 1]>>

\* strftime("%Y-%m-%d") of the parsed date: the C library writes the year
\* without padding, so a year below 1000 has fewer than four digits
Strftime(dd, mm, yyyy) ==
    Decimal(DigitsToInt(yyyy)) \o <<"-">> \o ZeroPad(DigitsToInt(mm), 2)
        \o <<"-">> \o ZeroPad(DayValue(dd), 2)

\* s is YYYY-MM-DD and names a day of the calendar
IsIsoCalendarDate(s) ==
    /\ Len(s) = 10
    /\ s[5] = "-" /\ s[8] = "-"
    /\ AllIn(Slice(s, 1, 4) \o Slice(s, 6, 7) \o Slice(s, 9, 10), AsciiDigitSet)
    /\ DmyValid(Slice(s, 9, 10), Slice(s, 6, 7), Slice(s, 1, 4))

\* \d{2}/\d{2}/\d{4} matches at p
DateAt(s, p) ==
    /\ p >= 1 /\ p + 9 <= Len(s)
    /\ s[p] \in DigitSet /\ s[p + 1] \in DigitSet /\ s[p + 2] = "/"
    /\ s[p + 3] \in DigitSet /\ s[p + 4] \in DigitSet /\ s[p + 5] = "/"
    /\ \A k \in 6..9 : s[p + k] \in DigitSet

\* re.search(r'\d{2}/\d{2}/\d{4}', s)
HasDate(s) == \E p \in 1..Len(s) : DateAt(s, p)

(* ------------------------------------------------------------------ *)
(* Parser state shared by the four parsers                             *)
(*                                                                     *)
(* A transaction dict lives in heap; transactions and                  *)
(* current_transaction hold references (positions in heap, 0 is None), *)
(* so a dict that is in the list and still the current one is one      *)
(* object, as in Python.                                               *)
(* ------------------------------------------------------------------ *)
NoCard == [type |-> None, number |-> None, masked_number |-> None]

ParserStart ==
    [ in_section          |-> FALSE,   \* in_transaction_section / in_transaction_table
      continuation_line   |-> <<>>,    \* Maybank
      heap                |-> <<>>,
      current_transaction |-> 0,
      transactions        |-> <<>>,
      current_card        |-> NoCard,  \* credit card; NoCard is None
      stopped             |-> FALSE,   \* CIMB: break taken, rest of the page is not read
      raised              |-> "None" ] \* exception that left the parser

\* transactions.append(a new dict d)
AppendNew(st, d) ==
    [st EXCEPT !.heap = Append(@, d),
               !.transactions = Append(@, Len(st.heap) + 1)]

\* the list of dicts the references stand for
Deref(heap, refs) == [i \in 1..Len(refs) |-> heap[refs[i]]]

\* del d[key] / d.pop(key, None)
DropKey(d, key) == [k \in (DOMAIN d) \ {key} |-> d[k]]

(* ------------------------------------------------------------------ *)
(* Maybank: PDFTransactionParser._parse_maybank                        *)
(* ------------------------------------------------------------------ *)
\* the string literals of _parse_maybank
MaybankText ==
    [
      URUSNIAGA_AKAUN      |-> <<"U","R","U","S","N","I","A","G","A"," ","A","K","A","U","N">>,
      ACCOUNT_TRANSACTIONS |-> <<"A","C","C","O","U","N","T"," ","T","R","A","N","S","A","C","T","I","O","N","S">>,
      ENDING_BALANCE       |-> <<"E","N","D","I","N","G"," ","B","A","L","A","N","C","E">>,
      BAKI_AKHIR           |-> <<"B","A","K","I"," ","A","K","H","I","R">>
    ]

\* re.search(date .*? amount .*? amount (.+), line): the leftmost date, then the
\* first amount after it, then the first later amount that leaves text behind it
MaybankMatch(line) ==
    Let([ds \in {{p \in 1..Len(line) : DateAt(line, p)}} |->
    Let([as \in {{p \in 1..Len(line) : AmtEnd(line, p) > 0}} |->
    Let([cands \in {{t \in ds \X as \X as :
                       /\ t[2] >= t[1] + 10
                       /\ t[3] >= AmtEnd(line, t[2])
                       /\ AmtEnd(line, t[3]) <= Len(line)}} |->
        IF cands = {} THEN [ok |-> FALSE]
        ELSE
        Let([i \in {Min({t[1] : t \in cands})} |->
        Let([j1 \in {Min({t[2] : t \in {u \in cands : u[1] = i}})} |->
        Let([j2 \in {Min({t[3] : t \in {u \in cands : u[1] = i /\ u[2] = j1}})} |->
             [ ok          |-> TRUE,
               date_str    |-> Slice(line, i, i + 9),
               amount_str  |-> Slice(line, j1, AmtEnd(line, j1) - 1),
               balance_str |-> Slice(line, j2, AmtEnd(line, j2) - 1),
               rest        |-> Slice(line, AmtEnd(line, j2), Len(line)) ]])])])])])])

\* a page with text begins: the flags are locals of the page loop
MaybankStartPage(st) ==
    [st EXCEPT !.in_section = FALSE, !.continuation_line = <<>>]

\* mutation: the type is taken as credit for a positive amount
MaybankType_credit_positive(amount) == IF amount > 0 THEN "credit" ELSE "debit"

\* transaction_type = 'debit' if amount > 0 else 'credit'
MaybankType(amount) == IF amount > 0 THEN "debit" ELSE "credit"

\* one iteration of the line loop
MaybankLine(st, raw) ==
    Let([stripped \in {Strip(raw)} |->
    IF Contains(stripped, MaybankText.URUSNIAGA_AKAUN) \/ Contains(stripped, MaybankText.ACCOUNT_TRANSACTIONS)
    THEN [st EXCEPT !.in_section = TRUE]
    ELSE IF Contains(stripped, MaybankText.ENDING_BALANCE) \/ Contains(stripped, MaybankText.BAKI_AKHIR)
    THEN [st EXCEPT !.in_section = FALSE]
    ELSE IF ~st.in_section THEN st
    ELSE
      Let([line \in {IF st.continuation_line # <<>>
          THEN JoinSpace(st.continuation_line, stripped) ELSE stripped} |->
      Let([st1 \in {[st EXCEPT !.continuation_line = <<>>]} |->
      Let([m \in {MaybankMatch(line)} |->
          IF m.ok
          THEN LET dd == Slice(m.date_str, 1, 2)
                   mm == Slice(m.date_str, 4, 5)
                   yy == Slice(m.date_str, 7, 10)
               IN  IF ~DmyValid(dd, mm, yy) THEN st1
                   ELSE AppendNew(st1,
                          [ date             |-> IsoFormat(dd, mm, yy),
                            description      |-> Strip(m.rest),
                            amount           |-> AmountCents(m.amount_str),
                            balance          |-> AmountCents(m.balance_str),
                            transaction_type |-> MaybankType(AmountCents(m.amount_str)),
                            bank             |-> "maybank" ])
          ELSE IF line # <<>> /\ ~HasDate(line)
               THEN [st1 EXCEPT !.continuation_line = line]
               ELSE st1])])])])
(* ------------------------------------------------------------------ *)
(* CIMB: PDFTransactionParser._parse_cimb and its helpers              *)
(* ------------------------------------------------------------------ *)
\* the string literals of _parse_cimb and its helpers
CimbText ==
    [
      CIMB_HEADER         |-> <<"D","a","t","e"," ","D","e","s","c","r","i","p","t","i","o","n"," ","C","h","e","q","u","e"," ","/"," ","R","e","f"," ","N","o"," ","W","i","t","h","d","r","a","w","a","l"," ","D","e","p","o","s","i","t","s"," ","T","a","x"," ","B","a","l","a","n","c","e">>,
      CIMB_BILINGUAL      |-> <<"T","a","r","i","k","h"," ","D","i","s","k","r","i","p","s","i"," ","N","o"," ","C","e","k"," ","/"," ","R","u","j","u","k","a","n"," ","P","e","n","g","e","l","u","a","r","a","n"," ","D","e","p","o","s","i","t"," ","C","u","k","a","i"," ","B","a","k","i">>,
      RM4                 |-> <<"(","R","M",")"," ","(","R","M",")"," ","(","R","M",")"," ","(","R","M",")">>,
      OPENING_BALANCE     |-> <<"O","P","E","N","I","N","G"," ","B","A","L","A","N","C","E">>,
      CLOSING_BALANCE     |-> <<"C","L","O","S","I","N","G"," ","B","A","L","A","N","C","E">>,
      BAKI_PENUTUP        |-> <<"B","A","K","I"," ","P","E","N","U","T","U","P">>,
      PRIVATE_TRANSACTION |-> <<"P","R","I","V","A","T","E"," ","T","R","A","N","S","A","C","T","I","O","N">>
    ]

\* re.search(r'^(\d{2}/\d{2}/\d{4})\s+(.+)$', line)
CimbDateMatch(line) ==
    IF ~(DateAt(line, 1) /\ Len(line) >= 12 /\ line[11] \in Whitespace)
    THEN [ok |-> FALSE]
    ELSE LET e == RunEnd(line, 11, Whitespace) IN
         [ ok       |-> TRUE,
           date_str |-> Slice(line, 1, 10),
           \* \s+ gives one character back when nothing else is left for (.+)
           rest     |-> IF e <= Len(line) THEN Slice(line, e, Len(line))
                        ELSE Slice(line, Len(line), Len(line)) ]

\* re.search(r'([\d,]+\.\d{2})\s+([\d,]+\.\d{2})\s*$', s): the leftmost start
TwoAmountsTail(s) ==
    LET at(p) ==
          Let([e1 \in {AmtEnd(s, p)} |->
          Let([q \in {IF e1 > 0 THEN RunEnd(s, e1, Whitespace) ELSE 0} |->
          Let([e2 \in {IF q > e1 THEN AmtEnd(s, q) ELSE 0} |->
              IF e2 > 0 /\ RunEnd(s, e2, Whitespace) = Len(s) + 1
              THEN [ ok |-> TRUE, start |-> p,
                     g1 |-> Slice(s, p, e1 - 1), g2 |-> Slice(s, q, e2 - 1) ]
              ELSE [ok |-> FALSE]])])])
    IN  Let([cands \in {{p \in 1..Len(s) : at(p).ok}} |->
        IF cands = {} THEN [ok |-> FALSE] ELSE at(Min(cands))])

\* re.search(r'^(.+?)\s+([A-Z0-9]{8,})\s*$', s)
RefChars == UpperSet \cup AsciiDigitSet
CimbRefMatch(s) ==
    LET keep == {i \in 1..Len(s) : s[i] \notin Whitespace}
        last == IF keep = {} THEN 0 ELSE Max(keep)
        \* start of the run of [A-Z0-9] that ends the text
        t    == IF last = 0 THEN 0
                ELSE Min({i \in 1..last : \A k \in i..last : s[k] \in RefChars} \cup {last + 1})
        as   == {a \in 1..(t - 2) : \A k \in (a + 1)..(t - 1) : s[k] \in Whitespace}
    IN  IF last = 0 \/ last - t + 1 < 8 \/ as = {} THEN [ok |-> FALSE]
        ELSE [ ok |-> TRUE, g1 |-> Slice(s, 1, Min(as)), g2 |-> Slice(s, t, last) ]

\* mutation: a start line without amounts also completes its record
CimbTransactionLine_always_complete(tr, line) ==
    Let([m \in {TwoAmountsTail(line)} |->
    IF m.ok
    THEN Let([description_part \in {Strip(Slice(line, 1, m.start - 1))} |->
         Let([r \in {CimbRefMatch(description_part)} |->
             [tr EXCEPT !.amount = AmountCents(m.g1),
                        !.balance = AmountCents(m.g2),
                        !.description = IF r.ok THEN Strip(r.g1) ELSE description_part,
                        !.cheque_no = IF r.ok THEN Strip(r.g2) ELSE @,
                        !.is_parsing = FALSE]])])
    ELSE [tr EXCEPT !.description = Strip(line), !.is_parsing = FALSE]])

\* _parse_cimb_transaction_line(transaction, line)
CimbTransactionLine(tr, line) ==
    Let([m \in {TwoAmountsTail(line)} |->
    IF m.ok
    THEN Let([description_part \in {Strip(Slice(line, 1, m.start - 1))} |->
         Let([r \in {CimbRefMatch(description_part)} |->
             [tr EXCEPT !.amount = AmountCents(m.g1),
                        !.balance = AmountCents(m.g2),
                        !.description = IF r.ok THEN Strip(r.g1) ELSE description_part,
                        !.cheque_no = IF r.ok THEN Strip(r.g2) ELSE @,
                        !.is_parsing = FALSE]])])
    ELSE [tr EXCEPT !.description = Strip(line)]])

\* re.match(r'^\s*[\d,]+\.\d{2}\s*$', line)
IsJustAmount(line) ==
    LET p == RunEnd(line, 1, Whitespace)
        e == AmtEnd(line, p)
    IN  e > 0 /\ RunEnd(line, e, Whitespace) = Len(line) + 1

\* the skip_patterns of _parse_cimb_continuation_line, matched with re.IGNORECASE
CimbShouldSkip(line) ==
    \/ AllIn(line, Whitespace)
    \/ StartsAt(IgnoreCase(line), 1, CimbText.PRIVATE_TRANSACTION)
    \/ IsJustAmount(line)

\* description += " " + text, or description = text when it is still empty
ExtendDescription(tr, text) ==
    [tr EXCEPT !.description = IF @ # <<>> THEN JoinSpace(@, text) ELSE text]

\* _parse_cimb_continuation_line(transaction, line)
CimbContinuationLine(tr, line) ==
    Let([m \in {TwoAmountsTail(line)} |->
    IF m.ok
    THEN Let([description_part \in {Strip(Slice(line, 1, m.start - 1))} |->
         Let([tr1 \in {[tr EXCEPT !.amount = IF @ = 0 THEN AmountCents(m.g1) ELSE @,
                        !.balance = AmountCents(m.g2)]} |->
         Let([tr2 \in {IF description_part # <<>> THEN ExtendDescription(tr1, description_part)
             ELSE tr1} |->
             [tr2 EXCEPT !.is_parsing = FALSE]])])])
    ELSE Let([s \in {Strip(line)} |->
         IF Len(s) \in 1..4 /\ AllIn(s, DigitSet) /\ tr.cheque_no # <<>>
         THEN [tr EXCEPT !.cheque_no = @ \o s]
         ELSE IF ~CimbShouldSkip(line) /\ s # <<>>
              THEN ExtendDescription(tr, s)
              ELSE tr])])

\* mutation: the new dict is tagged with another bank
CimbNewTransaction_tagged_maybank(date_iso) ==
    [ date |-> date_iso, description |-> <<>>, cheque_no |-> <<>>,
      amount |-> 0, balance |-> 0, transaction_type |-> "debit",
      bank |-> "maybank", is_parsing |-> TRUE ]

\* the dict a transaction-start line creates
CimbNewTransaction(date_iso) ==
    [ date |-> date_iso, description |-> <<>>, cheque_no |-> <<>>,
      amount |-> 0, balance |-> 0, transaction_type |-> "debit",
      bank |-> "cimb", is_parsing |-> TRUE ]

\* if current_transaction: transactions.append(current_transaction)
PushCurrent(st) ==
    IF st.current_transaction # 0
    THEN [st EXCEPT !.transactions = Append(@, st.current_transaction)]
    ELSE st

\* mutation: CLOSING BALANCE also leaves the transaction table
CimbClosing_leaves_table(st) ==
    [PushCurrent(st) EXCEPT !.current_transaction = 0, !.stopped = TRUE,
                            !.in_section = FALSE]

\* the CLOSING BALANCE / BAKI PENUTUP branch: push the open dict and break
CimbClosing(st) ==
    [PushCurrent(st) EXCEPT !.current_transaction = 0, !.stopped = TRUE]

\* one iteration of the line loop
CimbLine(st, raw) ==
    Let([line \in {Strip(raw)} |->
    IF line = <<>> THEN st
    ELSE IF Contains(line, CimbText.CIMB_HEADER) THEN [st EXCEPT !.in_section = TRUE]
    ELSE IF Contains(line, CimbText.CIMB_BILINGUAL) THEN st
    ELSE IF line = CimbText.RM4 THEN st
    ELSE IF Contains(line, CimbText.OPENING_BALANCE) THEN st
    ELSE IF Contains(line, CimbText.CLOSING_BALANCE) \/ Contains(line, CimbText.BAKI_PENUTUP)
    THEN CimbClosing(st)
    ELSE IF ~st.in_section THEN st
    ELSE
      Let([dm \in {CimbDateMatch(line)} |->
      IF dm.ok
      THEN Let([st1 \in {PushCurrent(st)} |->
           LET dd == Slice(dm.date_str, 1, 2)
               mm == Slice(dm.date_str, 4, 5)
               yy == Slice(dm.date_str, 7, 10)
           IN  IF ~DmyValid(dd, mm, yy)
               THEN st1      \* ValueError: continue, current_transaction is kept
               ELSE [st1 EXCEPT
                       !.heap = Append(@, CimbTransactionLine(
                                   CimbNewTransaction(IsoFormat(dd, mm, yy)), Strip(dm.rest))),
                       !.current_transaction = Len(st1.heap) + 1]])
      ELSE IF st.current_transaction # 0
           THEN [st EXCEPT !.heap[st.current_transaction] = CimbContinuationLine(@, line)]
           ELSE st])])

\* after the line loop of a page: "Add any remaining transaction"
CimbEndPage(st) ==
    [PushCurrent(st) EXCEPT !.current_transaction = 0, !.stopped = FALSE]

\* the sign loop of _finalize_cimb_transactions over positions 1..n of refs
RECURSIVE CimbSignLoop(_, _, _)
CimbSignLoop(heap, refs, i) ==
    IF i > Len(refs) THEN heap
    ELSE Let([t \in {heap[refs[i]]} |->
         Let([abs \in {IF t.amount < 0 THEN -t.amount ELSE t.amount} |->
         Let([t1 \in {IF i = 1
             THEN IF t.balance > t.balance - t.amount
                  THEN [t EXCEPT !.transaction_type = "credit"]
                  ELSE [t EXCEPT !.transaction_type = "debit", !.amount = -abs]
             ELSE IF t.balance > heap[refs[i - 1]].balance
                  THEN [t EXCEPT !.transaction_type = "credit", !.amount = abs]
                  ELSE [t EXCEPT !.transaction_type = "debit", !.amount = -abs]} |->
             CimbSignLoop([heap EXCEPT ![refs[i]] = t1], refs, i + 1)])])])

\* mutation: finalization keeps the records that are still being parsed
CimbFinalize_keeps_open(st) ==
    Let([refs \in {st.transactions} |->
    LET kept == {refs[i] : i \in 1..Len(refs)}
        clean(d) == [DropKey(d, "is_parsing") EXCEPT
                        !.description = Strip(@), !.cheque_no = Strip(@)]
        heap1 == [r \in 1..Len(st.heap) |->
                     IF r \in kept THEN clean(st.heap[r]) ELSE st.heap[r]]
    IN  Deref(CimbSignLoop(heap1, refs, 1), refs)])

\* _finalize_cimb_transactions(transactions): the list that is returned
CimbFinalize(st) ==
    Let([refs \in {SelectSeq(st.transactions, LAMBDA r : ~st.heap[r].is_parsing)} |->
    LET kept == {refs[i] : i \in 1..Len(refs)}
        clean(d) == [DropKey(d, "is_parsing") EXCEPT
                        !.description = Strip(@), !.cheque_no = Strip(@)]
        heap1 == [r \in 1..Len(st.heap) |->
                     IF r \in kept THEN clean(st.heap[r]) ELSE st.heap[r]]
    IN  Deref(CimbSignLoop(heap1, refs, 1), refs)])

(* ------------------------------------------------------------------ *)
(* Alliance: PDFTransactionParser._parse_alliance and its helpers      *)
(* ------------------------------------------------------------------ *)
\* the string literals of _parse_alliance and its helpers
AllianceText ==
    [
      Date_Transaction_Detail  |-> <<"D","a","t","e"," ","T","r","a","n","s","a","c","t","i","o","n"," ","D","e","t","a","i","l">>,
      Date_Transaction_Detai   |-> <<"D","a","t","e"," ","T","r","a","n","s","a","c","t","i","o","n"," ","D","e","t","a","i">>,
      Tarikh_Butiran_Transaksi |-> <<"T","a","r","i","k","h"," ","B","u","t","i","r","a","n"," ","T","r","a","n","s","a","k","s","i">>,
      Date_Description         |-> <<"D","a","t","e"," ","D","e","s","c","r","i","p","t","i","o","n">>,
      Tarikh_Keterangan        |-> <<"T","a","r","i","k","h"," ","K","e","t","e","r","a","n","g","a","n">>,
      Date_Particulars         |-> <<"D","a","t","e"," ","P","a","r","t","i","c","u","l","a","r","s">>,
      Transaction_Details      |-> <<"T","r","a","n","s","a","c","t","i","o","n"," ","D","e","t","a","i","l","s">>,
      TRANSACTION_DETAILS      |-> <<"T","R","A","N","S","A","C","T","I","O","N"," ","D","E","T","A","I","L","S">>,
      Date_Amount_Balance      |-> <<"D","a","t","e"," ","A","m","o","u","n","t"," ","B","a","l","a","n","c","e">>,
      Tarikh_Jumlah_Baki       |-> <<"T","a","r","i","k","h"," ","J","u","m","l","a","h"," ","B","a","k","i">>,
      Date                     |-> <<"D","a","t","e">>,
      Transaction              |-> <<"T","r","a","n","s","a","c","t","i","o","n">>,
      Amount                   |-> <<"A","m","o","u","n","t">>,
      Balance                  |-> <<"B","a","l","a","n","c","e">>,
      Description              |-> <<"D","e","s","c","r","i","p","t","i","o","n">>,
      Tarikh                   |-> <<"T","a","r","i","k","h">>,
      Butiran                  |-> <<"B","u","t","i","r","a","n">>,
      RM_paren                 |-> <<"(","R","M",")">>,
      RM                       |-> <<"R","M">>,
      Total_Charges            |-> <<"T","o","t","a","l"," ","C","h","a","r","g","e","s">>,
      CR                       |-> <<"C","R">>,
      DR                       |-> <<"D","R">>,
      PAGE_                    |-> <<"P","A","G","E"," ">>,
      sp_OF_sp                 |-> <<" ","O","F"," ">>,
      HALAMAN_                 |-> <<"H","A","L","A","M","A","N"," ">>,
      sp_DARI_sp               |-> <<" ","D","A","R","I"," ">>
    ]

\* d.get(key, default) and d[key] = v
Get(d, key, default) == IF key \in DOMAIN d THEN d[key] ELSE default
SetKey(d, key, v) == [k \in (DOMAIN d) \cup {key} |-> IF k = key THEN v ELSE d[k]]

transaction_headers ==
    << AllianceText.Date_Transaction_Detail, AllianceText.Date_Transaction_Detai, AllianceText.Tarikh_Butiran_Transaksi,
       AllianceText.Date_Description, AllianceText.Tarikh_Keterangan, AllianceText.Date_Particulars,
       AllianceText.Transaction_Details, AllianceText.TRANSACTION_DETAILS, AllianceText.Date_Amount_Balance,
       AllianceText.Tarikh_Jumlah_Baki >>

\* header_found after the header loop and the generic pattern
AllianceHeaderFound(line) ==
    \/ \E i \in 1..Len(transaction_headers) : Contains(line, transaction_headers[i])
    \/ /\ Contains(line, AllianceText.Date)
       /\ \/ Contains(line, AllianceText.Transaction) \/ Contains(line, AllianceText.Amount)
          \/ Contains(line, AllianceText.Balance) \/ Contains(line, AllianceText.Description)

AllianceBilingualSkip(line) ==
    \/ (Contains(line, AllianceText.Tarikh) /\ Contains(line, AllianceText.Butiran))
    \/ Strip(line) \in {AllianceText.RM_paren, AllianceText.RM}

AllianceSectionEnd(line) ==
    \/ Contains(line, MaybankText.ENDING_BALANCE) \/ Contains(line, MaybankText.BAKI_AKHIR)
    \/ Contains(line, CimbText.CLOSING_BALANCE) \/ Contains(line, CimbText.BAKI_PENUTUP)
    \/ Contains(line, AllianceText.Total_Charges)

\* what follows a date group: \s+(.+)$ from position e on; the text of (.+)
RestAfter(line, e) ==
    IF ~(e <= Len(line) /\ line[e] \in Whitespace) THEN None
    ELSE LET r == RunEnd(line, e, Whitespace) IN
         IF r <= Len(line) THEN Slice(line, r, Len(line))
         ELSE IF r - e >= 2 THEN Slice(line, Len(line), Len(line))
         ELSE None

\* ^(\d{1,2}/\d{1,2}/\d{2,4})\s+(.+)$
AllianceSlashMatch(line) ==
    LET p1 == RunEnd(line, 1, DigitSet)          \* the first "/"
        p2 == RunEnd(line, p1 + 1, DigitSet)     \* the second "/"
        p3 == RunEnd(line, p2 + 1, DigitSet)     \* after the year
        shape == /\ p1 - 1 \in {1, 2}
                 /\ p1 <= Len(line) /\ line[p1] = "/"
                 /\ p2 - p1 - 1 \in {1, 2}
                 /\ p2 <= Len(line) /\ line[p2] = "/"
                 /\ p3 - p2 - 1 \in {2, 3, 4}
    IN  IF Len(line) = 0 \/ ~shape \/ RestAfter(line, p3) = None THEN [ok |-> FALSE]
        ELSE [ ok |-> TRUE, fmt |-> "slash",
               dd |-> Slice(line, 1, p1 - 1), mm |-> Slice(line, p1 + 1, p2 - 1),
               yy |-> Slice(line, p2 + 1, p3 - 1),
               date_str |-> Slice(line, 1, p3 - 1),
               rest |-> RestAfter(line, p3) ]

\* ^(\d{6,8})\s+(.+)$
AllianceNumericMatch(line) ==
    LET p == RunEnd(line, 1, DigitSet) IN
    IF Len(line) = 0 \/ p - 1 \notin {6, 7, 8} \/ RestAfter(line, p) = None THEN [ok |-> FALSE]
    ELSE [ ok |-> TRUE, fmt |-> "numeric",
           dd |-> Slice(line, 1, 2), mm |-> Slice(line, 3, 4),
           yy |-> IF p - 1 = 6 THEN Slice(line, 5, 6) ELSE Slice(line, 5, p - 1),
           date_str |-> Slice(line, 1, p - 1),
           rest |-> RestAfter(line, p) ]

\* ^(\d{1,2}\s+[A-Z]{3}\s+\d{4})\s+(.+)$
AllianceMonthMatch(line) ==
    LET p1 == RunEnd(line, 1, DigitSet)
        w1 == RunEnd(line, p1, Whitespace)
        a1 == RunEnd(line, w1, UpperSet)
        w2 == RunEnd(line, a1, Whitespace)
        p2 == RunEnd(line, w2, DigitSet)
        shape == /\ p1 - 1 \in {1, 2}
                 /\ w1 > p1
                 /\ a1 - w1 = 3
                 /\ w2 > a1
                 /\ p2 - w2 = 4
    IN  IF Len(line) = 0 \/ ~shape \/ RestAfter(line, p2) = None THEN [ok |-> FALSE]
        ELSE [ ok |-> TRUE, fmt |-> "month",
               dd |-> Slice(line, 1, p1 - 1), mm |-> Slice(line, w1, a1 - 1),
               yy |-> Slice(line, w2, p2 - 1),
               date_str |-> Slice(line, 1, p2 - 1),
               rest |-> RestAfter(line, p2) ]

\* the three date patterns in the order they are tried
AllianceDateMatch(line) ==
    Let([slash \in {AllianceSlashMatch(line)} |->
    IF slash.ok THEN slash
    ELSE Let([numeric \in {AllianceNumericMatch(line)} |->
         IF numeric.ok THEN numeric
         ELSE AllianceMonthMatch(line)])])

\* two-digit years: 00-30 are 2000s, 31-99 are 1900s
ExpandYear(yy) ==
    IF DigitsToInt(yy) <= 30 THEN ZeroPad(2000 + DigitsToInt(yy), 4)
    ELSE ZeroPad(1900 + DigitsToInt(yy), 4)

\* %b of strptime, compared without case
MonthAbbr ==
    << <<"J","A","N">>, <<"F","E","B">>, <<"M","A","R">>, <<"A","P","R">>,
       <<"M","A","Y">>, <<"J","U","N">>, <<"J","U","L">>, <<"A","U","G">>,
       <<"S","E","P">>, <<"O","C","T">>, <<"N","O","V">>, <<"D","E","C">> >>
MonthNumber(abbr) ==
    IF \E i \in 1..12 : MonthAbbr[i] = IgnoreCase(abbr)
    THEN ZeroPad(CHOOSE i \in 1..12 : MonthAbbr[i] = IgnoreCase(abbr), 2)
    ELSE <<>>

\* the date conversion of a matched start line: [ok, iso]; ok is FALSE where
\* strptime raises ValueError
AllianceDate(m) ==
    LET yyyy == IF m.fmt = "month" THEN m.yy
                ELSE IF Len(m.yy) = 2 THEN ExpandYear(m.yy) ELSE m.yy
        mm   == IF m.fmt = "month" THEN MonthNumber(m.mm) ELSE m.mm
    IN  IF DmyValid(m.dd, mm, yyyy)
        THEN [ok |-> TRUE, iso |-> IsoFormat(m.dd, mm, yyyy)]
        ELSE [ok |-> FALSE]

\* 'CR' in line.upper()
HasCR(line) == Contains(Upper(line), AllianceText.CR)

\* \s+(CR|DR)?\s*$ from position e on: "CR"/"DR"/"" for group, None if no match
MarkerTail(s, e) ==
    LET q == RunEnd(s, e, Whitespace) IN
    IF e > Len(s) \/ q = e THEN None
    ELSE IF q = Len(s) + 1 THEN <<>>
    ELSE IF /\ (StartsAt(s, q, AllianceText.CR) \/ StartsAt(s, q, AllianceText.DR))
            /\ RunEnd(s, q + 2, Whitespace) = Len(s) + 1
         THEN Slice(s, q, q + 1)
         ELSE None

\* ([\d,]+\.\d{2})\s+([\d,]+\.\d{2})\s+(CR|DR)?\s*$ matching from p on
AmountBalanceMarkerAt(s, p) ==
    Let([e1 \in {AmtEnd(s, p)} |->
    Let([q \in {IF e1 > 0 THEN RunEnd(s, e1, Whitespace) ELSE 0} |->
    Let([e2 \in {IF q > e1 THEN AmtEnd(s, q) ELSE 0} |->
    Let([marker \in {IF e2 > 0 THEN MarkerTail(s, e2) ELSE None} |->
        IF marker # None
        THEN [ok |-> TRUE, start |-> p, g1 |-> Slice(s, p, e1 - 1),
              g2 |-> Slice(s, q, e2 - 1), cr_dr |-> marker]
        ELSE [ok |-> FALSE]])])])])

\* re.search(r'(.+?)\s+([\d,]+\.\d{2})\s+([\d,]+\.\d{2})\s+(CR|DR)?\s*$', line):
\* the shortest description that is followed by blanks and the rest
DescAmountBalanceMarker(line) ==
    LET at(a) == IF line[a + 1] \in Whitespace
                 THEN AmountBalanceMarkerAt(line, RunEnd(line, a + 1, Whitespace))
                 ELSE [ok |-> FALSE]
    IN  Let([as \in {{a \in 1..(Len(line) - 1) : at(a).ok}} |->
        IF as = {} THEN [ok |-> FALSE]
        ELSE Let([m \in {at(Min(as))} |->
                 [ok |-> TRUE, description |-> Slice(line, 1, Min(as)),
                  g1 |-> m.g1, g2 |-> m.g2, cr_dr |-> m.cr_dr]])])

\* re.search(r'([\d,]+\.\d{2})\s+([\d,]+\.\d{2})\s+(CR|DR)?\s*$', line)
AmountBalanceMarker(line) ==
    Let([ps \in {{p \in 1..Len(line) : AmountBalanceMarkerAt(line, p).ok}} |->
    IF ps = {} THEN [ok |-> FALSE] ELSE AmountBalanceMarkerAt(line, Min(ps))])

\* re.search(r'([\d,]+\.\d{2})\s+([\d,]+\.\d{2})\s+([\d,]+\.\d{2})\s*$', line)
ThreeAmountsTail(s) ==
    LET at(p) ==
          Let([e1 \in {AmtEnd(s, p)} |->
          Let([t \in {IF e1 > 0 THEN RunEnd(s, e1, Whitespace) ELSE 0} |->
          Let([e2 \in {IF t > e1 THEN AmtEnd(s, t) ELSE 0} |->
          Let([u \in {IF e2 > 0 THEN RunEnd(s, e2, Whitespace) ELSE 0} |->
          Let([e3 \in {IF u > e2 THEN AmtEnd(s, u) ELSE 0} |->
              IF e3 > 0 /\ RunEnd(s, e3, Whitespace) = Len(s) + 1
              THEN [ok |-> TRUE, start |-> p, g1 |-> Slice(s, p, e1 - 1),
                    g2 |-> Slice(s, t, e2 - 1), g3 |-> Slice(s, u, e3 - 1)]
              ELSE [ok |-> FALSE]])])])])])
    IN  Let([ps \in {{p \in 1..Len(s) : at(p).ok}} |->
        IF ps = {} THEN [ok |-> FALSE] ELSE at(Min(ps))])

\* re.search(r'([\d,]+\.\d{2})\s*$', line)
SingleAmountTail(s) ==
    Let([ps \in {{p \in 1..Len(s) :
                    AmtEnd(s, p) > 0 /\ RunEnd(s, AmtEnd(s, p), Whitespace) = Len(s) + 1}} |->
    IF ps = {} THEN [ok |-> FALSE]
    ELSE [ok |-> TRUE, start |-> Min(ps), g1 |-> Slice(s, Min(ps), AmtEnd(s, Min(ps)) - 1)]])

\* re.search(r'([\d,]+\.\d{2})\s+(CR|DR)?\s*$', line)
SingleAmountMarker(s) ==
    Let([ps \in {{p \in 1..Len(s) :
                    AmtEnd(s, p) > 0 /\ MarkerTail(s, AmtEnd(s, p)) # None}} |->
    IF ps = {} THEN [ok |-> FALSE]
    ELSE [ok |-> TRUE, start |-> Min(ps), g1 |-> Slice(s, Min(ps), AmtEnd(s, Min(ps)) - 1),
          cr_dr |-> MarkerTail(s, AmtEnd(s, Min(ps)))]])

\* mutation: the CR test is ignored, every amount is taken as a debit
SignedByCR_always_debit(tr, cents, is_credit) ==
    [tr EXCEPT !.amount = -cents, !.transaction_type = "debit"]

\* amount and type from an amount and the CR test
SignedByCR(tr, cents, is_credit) ==
    IF is_credit
    THEN [tr EXCEPT !.amount = cents, !.transaction_type = "credit"]
    ELSE [tr EXCEPT !.amount = -cents, !.transaction_type = "debit"]

\* mutation: the deposit column is ignored
SignedByColumns_withdrawal_only(tr, withdrawal, deposit) ==
    IF withdrawal > 0
    THEN [tr EXCEPT !.amount = -withdrawal, !.transaction_type = "debit"]
    ELSE tr

\* amount and type from a withdrawal / deposit pair
SignedByColumns(tr, withdrawal, deposit) ==
    IF withdrawal > 0
    THEN [tr EXCEPT !.amount = -withdrawal, !.transaction_type = "debit"]
    ELSE IF deposit > 0
    THEN [tr EXCEPT !.amount = deposit, !.transaction_type = "credit"]
    ELSE tr

\* mutation: the pair is tried before the triple
AllianceTransactionLine_pair_first(tr, line) ==
    Let([a \in {DescAmountBalanceMarker(line)} |->
    IF a.ok
    THEN Let([t1 \in {SignedByCR(tr, AmountCents(a.g1),
                        Contains(a.cr_dr, AllianceText.CR) \/ HasCR(line))} |->
         Let([t2 \in {[t1 EXCEPT !.balance = AmountCents(a.g2),
                        !.description = Strip(a.description),
                        !.is_parsing = TRUE]} |->
             SetKey(t2, "has_amounts", TRUE)])])
    ELSE Let([c \in {TwoAmountsTail(line)} |->
    IF c.ok
    THEN [SignedByCR(tr, AmountCents(c.g1), HasCR(line)) EXCEPT
             !.balance = AmountCents(c.g2),
             !.description = Strip(Slice(line, 1, c.start - 1)),
             !.is_parsing = FALSE]
    ELSE Let([b \in {ThreeAmountsTail(line)} |->
    IF b.ok
    THEN [SignedByColumns(tr, AmountCents(b.g1), AmountCents(b.g2)) EXCEPT
             !.balance = AmountCents(b.g3),
             !.description = Strip(Slice(line, 1, b.start - 1)),
             !.is_parsing = FALSE]
    ELSE Let([d \in {SingleAmountTail(line)} |->
    IF d.ok
    THEN [SignedByCR(tr, AmountCents(d.g1), HasCR(line)) EXCEPT
             !.description = Strip(Slice(line, 1, d.start - 1)),
             !.is_parsing = FALSE]
    ELSE [tr EXCEPT !.description = Strip(line)]])])])])

\* _parse_alliance_transaction_line(transaction, line)
AllianceTransactionLine(tr, line) ==
    Let([a \in {DescAmountBalanceMarker(line)} |->
    IF a.ok
    THEN Let([t1 \in {SignedByCR(tr, AmountCents(a.g1),
                        Contains(a.cr_dr, AllianceText.CR) \/ HasCR(line))} |->
         Let([t2 \in {[t1 EXCEPT !.balance = AmountCents(a.g2),
                        !.description = Strip(a.description),
                        !.is_parsing = TRUE]} |->
             SetKey(t2, "has_amounts", TRUE)])])
    ELSE Let([b \in {ThreeAmountsTail(line)} |->
    IF b.ok
    THEN [SignedByColumns(tr, AmountCents(b.g1), AmountCents(b.g2)) EXCEPT
             !.balance = AmountCents(b.g3),
             !.description = Strip(Slice(line, 1, b.start - 1)),
             !.is_parsing = FALSE]
    ELSE Let([c \in {TwoAmountsTail(line)} |->
    IF c.ok
    THEN [SignedByCR(tr, AmountCents(c.g1), HasCR(line)) EXCEPT
             !.balance = AmountCents(c.g2),
             !.description = Strip(Slice(line, 1, c.start - 1)),
             !.is_parsing = FALSE]
    ELSE Let([d \in {SingleAmountTail(line)} |->
    IF d.ok
    THEN [SignedByCR(tr, AmountCents(d.g1), HasCR(line)) EXCEPT
             !.description = Strip(Slice(line, 1, d.start - 1)),
             !.is_parsing = FALSE]
    ELSE [tr EXCEPT !.description = Strip(line)]])])])])

\* whole line is blanks, word, blanks (re.match(r'^\s*WORD\s*$', line, re.IGNORECASE))
IsJustWord(line, word) == IgnoreCase(Strip(line)) = word

\* ^\s*\(\s*RM\s*\)\s*$ without case
IsJustParenRM(line) ==
    LET s == Strip(line) IN
    /\ Len(s) >= 4 /\ s[1] = "(" /\ s[Len(s)] = ")"
    /\ IgnoreCase(Strip(Slice(s, 2, Len(s) - 1))) = AllianceText.RM

\* ^<w1>\d+<w2>\d+$ without case: "Page 1 of 2", "Halaman 1 dari 2"
IsPageFooter(line, w1, w2) ==
    LET u  == IgnoreCase(line)
        p  == Len(w1) + 1
        e1 == RunEnd(u, p, DigitSet)
        e2 == RunEnd(u, e1 + Len(w2), DigitSet)
    IN  /\ StartsAt(u, 1, w1)
        /\ e1 > p
        /\ StartsAt(u, e1, w2)
        /\ e2 > e1 + Len(w2)
        /\ e2 = Len(u) + 1

\* the skip_patterns of _parse_alliance_continuation_line
AllianceShouldSkip(line) ==
    \/ AllIn(line, Whitespace)
    \/ IsJustAmount(line)
    \/ IsJustWord(line, AllianceText.CR)
    \/ IsJustWord(line, AllianceText.DR)
    \/ IsJustParenRM(line)
    \/ IsJustWord(line, AllianceText.RM)
    \/ IsPageFooter(line, AllianceText.PAGE_, AllianceText.sp_OF_sp)
    \/ IsPageFooter(line, AllianceText.HALAMAN_, AllianceText.sp_DARI_sp)

\* mutation: the amounts of a continuation line are read again although the
\* record is flagged has_amounts
AllianceContinuationLine_reparses(tr, line) ==
      Let([p0 \in {AmountBalanceMarker(line)} |->
      Let([p1 \in {ThreeAmountsTail(line)} |->
      Let([p2 \in {TwoAmountsTail(line)} |->
      Let([p3 \in {SingleAmountMarker(line)} |->
          IF p0.ok \/ p1.ok \/ p2.ok \/ p3.ok
          THEN Let([start \in {IF p0.ok THEN p0.start ELSE IF p1.ok THEN p1.start
                   ELSE IF p2.ok THEN p2.start ELSE p3.start} |->
               Let([t1 \in {IF p0.ok
                   THEN [SignedByCR(tr, AmountCents(p0.g1),
                                    Contains(p0.cr_dr, AllianceText.CR) \/ HasCR(line))
                           EXCEPT !.balance = AmountCents(p0.g2)]
                   ELSE IF p1.ok
                   THEN [SignedByColumns(tr, AmountCents(p1.g1), AmountCents(p1.g2))
                           EXCEPT !.balance = AmountCents(p1.g3)]
                   ELSE IF p2.ok
                   THEN [SignedByCR(tr, AmountCents(p2.g1), HasCR(line))
                           EXCEPT !.balance = AmountCents(p2.g2)]
                   ELSE SignedByCR(tr, AmountCents(p3.g1),
                                   Contains(p3.cr_dr, AllianceText.CR) \/ HasCR(line))} |->
               Let([description_part \in {Strip(Slice(line, 1, start - 1))} |->
               Let([t2 \in {IF description_part # <<>>
                   THEN ExtendDescription(t1, description_part) ELSE t1} |->
                   [t2 EXCEPT !.is_parsing = FALSE]])])])])
          ELSE IF ~AllianceShouldSkip(line) /\ Strip(line) # <<>>
               THEN ExtendDescription(tr, Strip(line))
               ELSE tr])])])])

\* _parse_alliance_continuation_line(transaction, line)
AllianceContinuationLine(tr, line) ==
    IF Get(tr, "has_amounts", FALSE) THEN ExtendDescription(tr, Strip(line))
    ELSE
      Let([p0 \in {AmountBalanceMarker(line)} |->
      Let([p1 \in {ThreeAmountsTail(line)} |->
      Let([p2 \in {TwoAmountsTail(line)} |->
      Let([p3 \in {SingleAmountMarker(line)} |->
          IF p0.ok \/ p1.ok \/ p2.ok \/ p3.ok
          THEN Let([start \in {IF p0.ok THEN p0.start ELSE IF p1.ok THEN p1.start
                   ELSE IF p2.ok THEN p2.start ELSE p3.start} |->
               Let([t1 \in {IF p0.ok
                   THEN [SignedByCR(tr, AmountCents(p0.g1),
                                    Contains(p0.cr_dr, AllianceText.CR) \/ HasCR(line))
                           EXCEPT !.balance = AmountCents(p0.g2)]
                   ELSE IF p1.ok
                   THEN [SignedByColumns(tr, AmountCents(p1.g1), AmountCents(p1.g2))
                           EXCEPT !.balance = AmountCents(p1.g3)]
                   ELSE IF p2.ok
                   THEN [SignedByCR(tr, AmountCents(p2.g1), HasCR(line))
                           EXCEPT !.balance = AmountCents(p2.g2)]
                   ELSE SignedByCR(tr, AmountCents(p3.g1),
                                   Contains(p3.cr_dr, AllianceText.CR) \/ HasCR(line))} |->
               Let([description_part \in {Strip(Slice(line, 1, start - 1))} |->
               Let([t2 \in {IF description_part # <<>>
                   THEN ExtendDescription(t1, description_part) ELSE t1} |->
                   [t2 EXCEPT !.is_parsing = FALSE]])])])])
          ELSE IF ~AllianceShouldSkip(line) /\ Strip(line) # <<>>
               THEN ExtendDescription(tr, Strip(line))
               ELSE tr])])])])

AllianceNewTransaction(date_iso) ==
    [ date |-> date_iso, description |-> <<>>, amount |-> 0, balance |-> 0,
      transaction_type |-> "debit", bank |-> "alliance", is_parsing |-> TRUE ]

\* re.search(r'[\d,]+\.\d{2}', s)
HasAmount(s) == \E p \in 1..Len(s) : AmtEnd(s, p) > 0

\* a page with text begins: the flag and the open dict are locals of the page loop
AllianceStartPage(st) ==
    [st EXCEPT !.in_section = FALSE, !.current_transaction = 0]

\* one iteration of the line loop
AllianceLine(st, raw) ==
    Let([line \in {Strip(raw)} |->
    IF line = <<>> THEN st
    ELSE IF AllianceHeaderFound(line) THEN [st EXCEPT !.in_section = TRUE]
    ELSE IF AllianceBilingualSkip(line) THEN st
    ELSE IF AllianceSectionEnd(line)
    THEN [PushCurrent(st) EXCEPT !.current_transaction = 0, !.in_section = FALSE]
    ELSE IF ~st.in_section THEN st
    ELSE
      Let([dm \in {AllianceDateMatch(line)} |->
      IF dm.ok
      THEN Let([cur \in {st.current_transaction} |->
           Let([st1 \in {IF cur # 0 /\ (st.heap[cur].amount # 0 \/ st.heap[cur].description # <<>>)
               THEN PushCurrent(st) ELSE st} |->
           Let([d \in {AllianceDate(dm)} |->
           Let([rest_of_line \in {Strip(dm.rest)} |->
           Let([new \in {AllianceNewTransaction(IF d.ok THEN d.iso ELSE <<>>)} |->
           Let([tr \in {IF rest_of_line = <<>> THEN new
               ELSE IF HasAmount(rest_of_line)
               THEN AllianceTransactionLine(new, rest_of_line)
               ELSE [new EXCEPT !.description = rest_of_line]} |->
               IF ~d.ok
               THEN st1      \* ValueError: continue, current_transaction is kept
               ELSE [st1 EXCEPT !.heap = Append(@, tr),
                                !.current_transaction = Len(st1.heap) + 1]])])])])])])
      ELSE IF st.current_transaction # 0 /\ st.heap[st.current_transaction].is_parsing
           THEN [st EXCEPT !.heap[st.current_transaction] = AllianceContinuationLine(@, line)]
           ELSE st])])

\* after the line loop of a page: "Add any remaining transaction"
AllianceEndPage(st) ==
    [PushCurrent(st) EXCEPT !.current_transaction = 0]

\* mutation: a record flagged has_amounts is kept only when it is complete
AllianceKeep_complete_only(d) == ~d.is_parsing

\* the filter of _finalize_alliance_transactions: "Remove incomplete
\* transactions (but keep those with amounts even if still parsing)"
AllianceKeep(d) == ~Get(d, "is_parsing", FALSE) \/ Get(d, "has_amounts", FALSE)

\* mutation: the sign is forced the wrong way round for credits
AllianceClean_negative_credits(d) ==
    Let([d1 \in {DropKey(DropKey(d, "is_parsing"), "has_amounts")} |->
    Let([d2 \in {[d1 EXCEPT !.description = Strip(@)]} |->
        IF d2.amount > 0 THEN [d2 EXCEPT !.amount = -d2.amount] ELSE d2])])

\* the clean-up loop of _finalize_alliance_transactions for one record: the
\* flags are popped, the description stripped, the sign made to agree with
\* the type
AllianceClean(d) ==
    Let([d1 \in {DropKey(DropKey(d, "is_parsing"), "has_amounts")} |->
    Let([d2 \in {[d1 EXCEPT !.description = Strip(@)]} |->
        IF d2.transaction_type = "debit" /\ d2.amount > 0
        THEN [d2 EXCEPT !.amount = -d2.amount]
        ELSE IF d2.transaction_type = "credit" /\ d2.amount < 0
        THEN [d2 EXCEPT !.amount = -d2.amount]
        ELSE d2])])

\* _finalize_alliance_transactions(transactions): the list that is returned
AllianceFinalize(st) ==
    Let([refs \in {SelectSeq(st.transactions, LAMBDA r : AllianceKeep(st.heap[r]))} |->
        [i \in 1..Len(refs) |-> AllianceClean(st.heap[refs[i]])]])
(* ------------------------------------------------------------------ *)
(* Credit card: PDFTransactionParser._parse_credit_card                *)
(*                                                                     *)
(* The handler of a line reads the lines that follow it on the page.   *)
(* It is given the window w of lines from the current one on (w[1] is  *)
(* the current line) and ended, whether the page ends after w; need    *)
(* tells that it would read a line the window does not yet determine.  *)
(* ------------------------------------------------------------------ *)
\* the string literals of _parse_credit_card
CreditCardText ==
    [
      MUHAMMAD_MAHERILHAM           |-> <<"M","U","H","A","M","M","A","D"," ","M","A","H","E","R","I","L","H","A","M">>,
      ENCIK_MUHAMMAD_MAHERILHAM     |-> <<"E","N","C","I","K"," ","M","U","H","A","M","M","A","D"," ","M","A","H","E","R","I","L","H","A","M">>,
      MASTERCARD                    |-> <<"M","A","S","T","E","R","C","A","R","D">>,
      CARD                          |-> <<"C","A","R","D">>,
      Account_Nu                    |-> <<"A","c","c","o","u","n","t"," ","N","u">>,
      MAYBANK_CARD                  |-> <<"M","A","Y","B","A","N","K"," ","C","A","R","D">>,
      Posting_Date_slash            |-> <<"P","o","s","t","i","n","g"," ","D","a","t","e"," ","/">>,
      Transaction_Date_slash        |-> <<"T","r","a","n","s","a","c","t","i","o","n"," ","D","a","t","e"," ","/">>,
      Transaction_Description_slash |-> <<"T","r","a","n","s","a","c","t","i","o","n"," ","D","e","s","c","r","i","p","t","i","o","n"," ","/">>,
      TOTAL_CREDIT_THIS_MONTH       |-> <<"T","O","T","A","L"," ","C","R","E","D","I","T"," ","T","H","I","S"," ","M","O","N","T","H">>,
      SUB_TOTAL_JUMLAH              |-> <<"S","U","B"," ","T","O","T","A","L","/","J","U","M","L","A","H">>,
      MASTERCARD_IKHWAN             |-> <<"M","A","S","T","E","R","C","A","R","D"," ","I","K","H","W","A","N">>,
      YOUR_COMBINED_FACILITY        |-> <<"Y","O","U","R"," ","C","O","M","B","I","N","E","D"," ","F","A","C","I","L","I","T","Y">>,
      TAX_INVOICE_NO                |-> <<"T","A","X"," ","I","N","V","O","I","C","E"," ","N","O">>,
      GST                           |-> <<"G","S","T">>,
      Page_Halaman                  |-> <<"P","a","g","e","/","H","a","l","a","m","a","n">>,
      STATEMENT_OF_CREDIT           |-> <<"S","T","A","T","E","M","E","N","T"," ","O","F"," ","C","R","E","D","I","T">>,
      TOTAL_CREDIT                  |-> <<"T","O","T","A","L"," ","C","R","E","D","I","T">>,
      JUMLAH_KREDIT                 |-> <<"J","U","M","L","A","H"," ","K","R","E","D","I","T">>,
      TOTAL_DEBIT                   |-> <<"T","O","T","A","L"," ","D","E","B","I","T">>,
      SUB_TOTAL                     |-> <<"S","U","B"," ","T","O","T","A","L">>,
      Posting_Date                  |-> <<"P","o","s","t","i","n","g"," ","D","a","t","e">>,
      TRANSACTED_AMOUNT             |-> <<"T","R","A","N","S","A","C","T","E","D"," ","A","M","O","U","N","T">>,
      USD                           |-> <<"U","S","D">>,
      EUR                           |-> <<"E","U","R">>,
      SGD                           |-> <<"S","G","D">>,
      EXCHANGE_RATE                 |-> <<"E","X","C","H","A","N","G","E"," ","R","A","T","E">>,
      MUHAMMAD                      |-> <<"M","U","H","A","M","M","A","D">>,
      YOUR_COMBINED                 |-> <<"Y","O","U","R"," ","C","O","M","B","I","N","E","D">>,
      Statement_Date_slash          |-> <<"S","t","a","t","e","m","e","n","t"," ","D","a","t","e","/">>,
      Tarikh_Penyata                |-> <<"T","a","r","i","k","h"," ","P","e","n","y","a","t","a">>,
      USD_open                      |-> <<"(","U","S","D"," ">>,
      space_CR                      |-> <<" ","C","R">>,
      semicolon_space               |-> <<";"," ">>
    ]

WhitespaceNl == Whitespace \cup {"\n"}
UpperWs == UpperSet \cup Whitespace
AmountDotChars == DigitSet \cup {",", "."}

\* \d{2}/\d{2} at position p
DdMmAt(s, p) ==
    /\ p >= 1 /\ p + 4 <= Len(s)
    /\ s[p] \in DigitSet /\ s[p + 1] \in DigitSet /\ s[p + 2] = "/"
    /\ s[p + 3] \in DigitSet /\ s[p + 4] \in DigitSet

\* \d{4}\s\d{4}\s\d{4}\s\d{4} at position p
CardNumberAt(s, p) ==
    /\ p >= 1 /\ p + 18 <= Len(s)
    /\ \A k \in 0..18 : IF k \in {4, 9, 14} THEN s[p + k] \in Whitespace
                                           ELSE s[p + k] \in DigitSet

\* start of the maximal run of Class characters that ends just before r
RunStart(s, r, Class) == Min({i \in 1..r : \A k \in i..(r - 1) : s[k] \in Class})

\* re.search(r'([A-Z\s]*WORD[A-Z\s]*)\s*[seps]\s*(number)', line)
CardByWord(line, word, seps) ==
    LET fits(r) == /\ line[r] \in seps
                   /\ CardNumberAt(line, RunEnd(line, r + 1, Whitespace))
                   /\ Contains(Slice(line, RunStart(line, r, UpperWs), r - 1), word)
        rs == {r \in 1..Len(line) : fits(r)}
    IN  IF rs = {} THEN [ok |-> FALSE]
        ELSE LET r == Min(rs)
                 q == RunEnd(line, r + 1, Whitespace)
             IN  [ok |-> TRUE,
                  card_type |-> Strip(Slice(line, RunStart(line, r, UpperWs), r - 1)),
                  card_number |-> Slice(line, q, q + 18)]

\* re.search(r'Account Nu[mber]*[:/]\s*(number)', line)
CardByAccount(line) ==
    LET fits(p) == LET e == RunEnd(line, p + Len(CreditCardText.Account_Nu), {"m", "b", "e", "r"}) IN
                   /\ StartsAt(line, p, CreditCardText.Account_Nu)
                   /\ e <= Len(line) /\ line[e] \in {":", "/"}
                   /\ CardNumberAt(line, RunEnd(line, e + 1, Whitespace))
        ps == {p \in 1..Len(line) : fits(p)}
    IN  IF ps = {} THEN [ok |-> FALSE]
        ELSE LET e == RunEnd(line, Min(ps) + Len(CreditCardText.Account_Nu), {"m", "b", "e", "r"})
                 q == RunEnd(line, e + 1, Whitespace)
             IN  [ok |-> TRUE, card_type |-> CreditCardText.MAYBANK_CARD,
                  card_number |-> Slice(line, q, q + 18)]

\* the card_patterns in the order they are tried
CardMatch(check_line) ==
    Let([by_mastercard \in {CardByWord(check_line, CreditCardText.MASTERCARD, {":"})} |->
    IF by_mastercard.ok THEN by_mastercard
    ELSE Let([by_account \in {CardByAccount(check_line)} |->
         IF by_account.ok THEN by_account
         ELSE CardByWord(check_line, CreditCardText.CARD, {":", "-"})])])

\* the loop over check_idx after a name line; k is the window position read
RECURSIVE CardScan(_, _, _, _)
CardScan(card, w, ended, k) ==
    IF k > 5 THEN [card |-> card, need |-> FALSE]
    ELSE IF k > Len(w) THEN [card |-> card, need |-> ~ended]
    ELSE Let([m \in {CardMatch(Strip(w[k]))} |->
         IF m.ok
         THEN [card |-> [type |-> m.card_type, number |-> m.card_number,
                         masked_number |-> m.card_number],
               need |-> FALSE]
         ELSE IF card # NoCard THEN [card |-> card, need |-> FALSE]
         ELSE CardScan(card, w, ended, k + 1)])

\* ([\d,.]+\.\d{2})\s*(CR)?$ matching from p on
AmountTailAt(s, p) ==
    LET r == RunEnd(s, p, AmountDotChars)
        t == RunEnd(s, r, Whitespace)
        shape == /\ p >= 1 /\ p <= Len(s)
                 /\ r - p >= 4
                 /\ s[r - 3] = "." /\ s[r - 2] \in DigitSet /\ s[r - 1] \in DigitSet
    IN  IF shape /\ t = Len(s) + 1
        THEN [ok |-> TRUE, amount_str |-> Slice(s, p, r - 1), cr_flag |-> FALSE]
        ELSE IF shape /\ StartsAt(s, t, AllianceText.CR) /\ t + 2 = Len(s) + 1
        THEN [ok |-> TRUE, amount_str |-> Slice(s, p, r - 1), cr_flag |-> TRUE]
        ELSE [ok |-> FALSE]

\* re.match(r'^(\d{2}/\d{2})\s+(\d{2}/\d{2})\s+(.*?)(?:\s+([\d,.]+\.\d{2})\s*(CR)?)?$', line)
\* amount_str is <<>> where group 4 is None
CreditCardMatch(line) ==
    IF ~(DdMmAt(line, 1) /\ RunEnd(line, 6, Whitespace) > 6) THEN [ok |-> FALSE]
    ELSE
    Let([q \in {RunEnd(line, 6, Whitespace)} |->          \* the second date
    IF ~(DdMmAt(line, q) /\ RunEnd(line, q + 5, Whitespace) > q + 5) THEN [ok |-> FALSE]
    ELSE
    Let([d0 \in {RunEnd(line, q + 5, Whitespace)} |->     \* the description
    LET at(a) == IF line[a + 1] \in Whitespace
                 THEN AmountTailAt(line, RunEnd(line, a + 1, Whitespace))
                 ELSE [ok |-> FALSE]
    IN  Let([as \in {{a \in d0..(Len(line) - 1) : at(a).ok}} |->
        IF as = {}
        THEN [ok |-> TRUE, posting_date |-> Slice(line, 1, 5),
              transaction_date |-> Slice(line, q, q + 4),
              description |-> Slice(line, d0, Len(line)),
              amount_str |-> <<>>, cr_flag |-> FALSE]
        ELSE Let([m \in {at(Min(as))} |->
                 [ok |-> TRUE, posting_date |-> Slice(line, 1, 5),
                  transaction_date |-> Slice(line, q, q + 4),
                  description |-> Slice(line, d0, Min(as)),
                  amount_str |-> m.amount_str, cr_flag |-> m.cr_flag]])])])])

ContainsAny(line, words) == \E i \in 1..Len(words) : Contains(line, words[i])

\* the loop over next_idx when the start line carries no amount
RECURSIVE AmountScan(_, _, _, _)
AmountScan(description, w, ended, k) ==
    IF k > 3 THEN [amount_str |-> <<>>, description |-> description, need |-> FALSE]
    ELSE IF k > Len(w)
    THEN [amount_str |-> <<>>, description |-> description, need |-> ~ended]
    ELSE Let([next_line \in {Strip(w[k])} |->
         Let([m \in {AmountTailAt(next_line, 1)} |->
             IF m.ok
             THEN [amount_str |-> IF m.cr_flag THEN m.amount_str \o CreditCardText.space_CR
                                  ELSE m.amount_str,
                   description |-> description, need |-> FALSE]
             ELSE IF /\ ~DdMmAt(next_line, 1)
                     /\ ~ContainsAny(next_line, << CreditCardText.TOTAL_CREDIT, CreditCardText.JUMLAH_KREDIT,
                                                   CreditCardText.TOTAL_DEBIT, CreditCardText.SUB_TOTAL >>)
             THEN AmountScan(JoinSpace(description, next_line), w, ended, k + 1)
             ELSE AmountScan(description, w, ended, k + 1)])])

\* re.match(r'^\d{2}/\d{2}\s+\d{2}/\d{2}', note_line)
StartsWithTwoDates(s) ==
    /\ DdMmAt(s, 1) /\ RunEnd(s, 6, Whitespace) > 6
    /\ DdMmAt(s, RunEnd(s, 6, Whitespace))

\* the second test of the notes loop: a currency keyword, or a long line
\* that is not a header
IsNote(note_line) ==
    \/ ContainsAny(Upper(note_line), << CreditCardText.TRANSACTED_AMOUNT, CreditCardText.USD, CreditCardText.EUR, CreditCardText.SGD,
                                        CreditCardText.EXCHANGE_RATE >>)
    \/ /\ Len(note_line) > 10
       /\ ~ContainsAny(note_line, << CreditCardText.MUHAMMAD, CreditCardText.MASTERCARD, CreditCardText.YOUR_COMBINED >>)

\* the loop over note_idx
RECURSIVE NoteScan(_, _, _, _)
NoteScan(notes, w, ended, k) ==
    IF k > 4 THEN [notes |-> notes, need |-> FALSE]
    ELSE IF k > Len(w) THEN [notes |-> notes, need |-> ~ended]
    ELSE Let([note_line \in {Strip(w[k])} |->
         IF note_line = <<>> THEN NoteScan(notes, w, ended, k + 1)
         ELSE IF StartsWithTwoDates(note_line) THEN [notes |-> notes, need |-> FALSE]
         ELSE IF ContainsAny(note_line, << CreditCardText.Posting_Date, CreditCardText.TOTAL_CREDIT, CreditCardText.TOTAL_DEBIT,
                                           CreditCardText.Page_Halaman, CreditCardText.SUB_TOTAL, AllianceText.Tarikh >>)
         THEN [notes |-> notes, need |-> FALSE]
         ELSE IF IsNote(note_line)
         THEN NoteScan(Append(notes, note_line), w, ended, k + 1)
         ELSE NoteScan(notes, w, ended, k + 1)])

\* '; '.join(notes)
RECURSIVE JoinNotes(_)
JoinNotes(notes) ==
    IF notes = <<>> THEN <<>>
    ELSE IF Len(notes) = 1 THEN notes[1]
    ELSE notes[1] \o CreditCardText.semicolon_space \o JoinNotes(Tail(notes))

\* re.search(r'TRANSACTED AMOUNT\s+USD\s+(\d+\.\d{2})', description)
UsdMatch(s) ==
    LET at(p) == LET a == p + Len(CreditCardText.TRANSACTED_AMOUNT)
                     b == RunEnd(s, a, Whitespace)
                     c == b + Len(CreditCardText.USD)
                     d == RunEnd(s, c, Whitespace)
                     e == RunEnd(s, d, DigitSet)
                 IN  IF /\ StartsAt(s, p, CreditCardText.TRANSACTED_AMOUNT) /\ b > a
                        /\ StartsAt(s, b, CreditCardText.USD) /\ d > c
                        /\ e > d /\ e + 2 <= Len(s) /\ s[e] = "."
                        /\ s[e + 1] \in DigitSet /\ s[e + 2] \in DigitSet
                     THEN [ok |-> TRUE, g0 |-> Slice(s, p, e + 2), g1 |-> Slice(s, d, e + 2)]
                     ELSE [ok |-> FALSE]
        ps == {p \in 1..Len(s) : at(p).ok}
    IN  IF ps = {} THEN [ok |-> FALSE] ELSE at(Min(ps))

\* s.replace(old, new), from position p on
RECURSIVE ReplaceFrom(_, _, _, _)
ReplaceFrom(s, old, new, p) ==
    LET ps == {i \in p..Len(s) : StartsAt(s, i, old)} IN
    IF ps = {} THEN Slice(s, p, Len(s))
    ELSE Slice(s, p, Min(ps) - 1) \o new \o ReplaceFrom(s, old, new, Min(ps) + Len(old))

\* "Handle USD transactions"
UsdRewrite(description) ==
    Let([m \in {UsdMatch(description)} |->
    IF m.ok THEN ReplaceFrom(description, m.g0, CreditCardText.USD_open \o m.g1 \o <<")">>, 1)
    ELSE description])

\* float(amount_str.replace("CR", "").replace(",", "")): the text before the
\* last ".dd" must be digits only, else ValueError
FloatOk(amount_str) ==
    LET t == RemoveChar(Strip(amount_str), ",") IN
    /\ Len(t) >= 3
    /\ AllIn(Slice(t, 1, Len(t) - 3), DigitSet)
FloatCents(amount_str) ==
    LET t == RemoveChar(Strip(amount_str), ",")
        whole == Slice(t, 1, Len(t) - 3)
    IN  (IF whole = <<>> THEN 0 ELSE DigitsToInt(whole)) * 100
          + DigitsToInt(Slice(t, Len(t) - 1, Len(t)))

\* the try block of "Convert dates to standard format": the raw DD/MM texts
\* are kept when either strptime raises
CreditCardDates(posting_date, transaction_date, year) ==
    LET ok(d) == DmyValid(Slice(d, 1, 2), Slice(d, 4, 5), year)
        iso(d) == Strftime(Slice(d, 1, 2), Slice(d, 4, 5), year)
    IN  IF ok(posting_date) /\ ok(transaction_date)
        THEN [posting_date_str |-> iso(posting_date),
              transaction_date_str |-> iso(transaction_date)]
        ELSE [posting_date_str |-> posting_date,
              transaction_date_str |-> transaction_date]

\* re.search(r'Statement Date/\s+Tarikh Penyata\s+(\d{2} [A-Z]{3} \d{2})', first_page_text)
StatementDate(first_page_text) ==
    LET s == first_page_text
        at(p) == LET a == p + Len(CreditCardText.Statement_Date_slash)
                     b == RunEnd(s, a, WhitespaceNl)
                     c == b + Len(CreditCardText.Tarikh_Penyata)
                     d == RunEnd(s, c, WhitespaceNl)
                 IN  IF /\ StartsAt(s, p, CreditCardText.Statement_Date_slash) /\ b > a
                        /\ StartsAt(s, b, CreditCardText.Tarikh_Penyata) /\ d > c
                        /\ d + 8 <= Len(s)
                        /\ s[d] \in DigitSet /\ s[d + 1] \in DigitSet /\ s[d + 2] = " "
                        /\ \A k \in 3..5 : s[d + k] \in UpperSet
                        /\ s[d + 6] = " " /\ s[d + 7] \in DigitSet /\ s[d + 8] \in DigitSet
                     THEN Slice(s, d, d + 8) ELSE None
        ps == {p \in 1..Len(s) : at(p) # None}
    IN  IF ps = {} THEN None ELSE at(Min(ps))

\* mutation: the negated working value of a debit is stored as it is
CreditCardLine_signed_amount(st, w, ended, ctx) ==
    Let([line \in {Strip(w[1])} |->
    Let([is_name \in {Contains(line, CreditCardText.MUHAMMAD_MAHERILHAM)
                        \/ Contains(line, CreditCardText.ENCIK_MUHAMMAD_MAHERILHAM)} |->
    Let([scan \in {IF is_name THEN CardScan(st.current_card, w, ended, 2)
                   ELSE [card |-> st.current_card, need |-> FALSE]} |->
    Let([st1 \in {[st EXCEPT !.current_card = scan.card]} |->
        IF line = <<>> THEN [st |-> st, need |-> FALSE]
        ELSE IF scan.need THEN [st |-> st, need |-> TRUE]
        ELSE IF /\ Contains(line, CreditCardText.Posting_Date_slash)
                /\ Contains(line, CreditCardText.Transaction_Date_slash)
                /\ Contains(line, CreditCardText.Transaction_Description_slash)
        THEN [st |-> [st1 EXCEPT !.in_section = TRUE], need |-> FALSE]
        ELSE IF ~st1.in_section \/ st1.current_card = NoCard
        THEN [st |-> st1, need |-> FALSE]
        ELSE IF Contains(line, CreditCardText.TOTAL_CREDIT_THIS_MONTH) \/ Contains(line, CreditCardText.SUB_TOTAL_JUMLAH)
        THEN [st |-> [st1 EXCEPT !.in_section = FALSE], need |-> FALSE]
        ELSE IF ContainsAny(line, << CreditCardText.MUHAMMAD_MAHERILHAM, CreditCardText.MASTERCARD_IKHWAN,
                                     CreditCardText.YOUR_COMBINED_FACILITY, CreditCardText.TAX_INVOICE_NO, CreditCardText.GST,
                                     CreditCardText.Page_Halaman, CreditCardText.STATEMENT_OF_CREDIT >>)
        THEN [st |-> st1, need |-> FALSE]
        ELSE
        Let([m \in {CreditCardMatch(line)} |->
          IF ~m.ok THEN [st |-> st1, need |-> FALSE]
          ELSE
          Let([on_line \in {IF m.cr_flag THEN m.amount_str \o CreditCardText.space_CR
                            ELSE m.amount_str} |->
          Let([look \in {IF on_line = <<>>
                         THEN AmountScan(Strip(m.description), w, ended, 2)
                         ELSE [amount_str |-> on_line, description |-> Strip(m.description),
                               need |-> FALSE]} |->
          Let([amount_str \in {look.amount_str} |->
          Let([is_credit \in {Contains(amount_str, AllianceText.CR)} |->
          Let([number \in {IF is_credit THEN ReplaceFrom(amount_str, AllianceText.CR, <<>>, 1)
                           ELSE amount_str} |->
          Let([dates \in {CreditCardDates(m.posting_date, m.transaction_date, ctx.year)} |->
          Let([ns \in {NoteScan(<<>>, w, ended, 2)} |->
              IF look.need THEN [st |-> st, need |-> TRUE]
              ELSE IF amount_str = <<>> THEN [st |-> st1, need |-> FALSE]
              ELSE IF ~FloatOk(number)
              THEN [st |-> [st1 EXCEPT !.raised = "ValueError"], need |-> FALSE]
              ELSE IF ns.need THEN [st |-> st, need |-> TRUE]
              ELSE [st |-> AppendNew(st1,
                      [ date             |-> dates.transaction_date_str,
                        posting_date     |-> dates.posting_date_str,
                        description      |-> UsdRewrite(Strip(look.description)),
                        amount           |-> IF is_credit THEN FloatCents(number)
                                             ELSE -FloatCents(number),
                        transaction_type |-> IF is_credit THEN "credit" ELSE "debit",
                        bank             |-> "credit_card",
                        card_type        |-> st1.current_card.type,
                        card_number      |-> st1.current_card.masked_number,
                        notes            |-> JoinNotes(ns.notes),
                        statement_date   |-> ctx.statement_date ]),
                    need |-> FALSE]])])])])])])])])])])])])

\* mutation: a line in the section is read as a transaction with no card set
CreditCardLine_card_not_required(st, w, ended, ctx) ==
    Let([line \in {Strip(w[1])} |->
    Let([is_name \in {Contains(line, CreditCardText.MUHAMMAD_MAHERILHAM)
                        \/ Contains(line, CreditCardText.ENCIK_MUHAMMAD_MAHERILHAM)} |->
    Let([scan \in {IF is_name THEN CardScan(st.current_card, w, ended, 2)
                   ELSE [card |-> st.current_card, need |-> FALSE]} |->
    Let([st1 \in {[st EXCEPT !.current_card = scan.card]} |->
        IF line = <<>> THEN [st |-> st, need |-> FALSE]
        ELSE IF scan.need THEN [st |-> st, need |-> TRUE]
        ELSE IF /\ Contains(line, CreditCardText.Posting_Date_slash)
                /\ Contains(line, CreditCardText.Transaction_Date_slash)
                /\ Contains(line, CreditCardText.Transaction_Description_slash)
        THEN [st |-> [st1 EXCEPT !.in_section = TRUE], need |-> FALSE]
        ELSE IF ~st1.in_section
        THEN [st |-> st1, need |-> FALSE]
        ELSE IF Contains(line, CreditCardText.TOTAL_CREDIT_THIS_MONTH) \/ Contains(line, CreditCardText.SUB_TOTAL_JUMLAH)
        THEN [st |-> [st1 EXCEPT !.in_section = FALSE], need |-> FALSE]
        ELSE IF ContainsAny(line, << CreditCardText.MUHAMMAD_MAHERILHAM, CreditCardText.MASTERCARD_IKHWAN,
                                     CreditCardText.YOUR_COMBINED_FACILITY, CreditCardText.TAX_INVOICE_NO, CreditCardText.GST,
                                     CreditCardText.Page_Halaman, CreditCardText.STATEMENT_OF_CREDIT >>)
        THEN [st |-> st1, need |-> FALSE]
        ELSE
        Let([m \in {CreditCardMatch(line)} |->
          IF ~m.ok THEN [st |-> st1, need |-> FALSE]
          ELSE
          Let([on_line \in {IF m.cr_flag THEN m.amount_str \o CreditCardText.space_CR
                            ELSE m.amount_str} |->
          Let([look \in {IF on_line = <<>>
                         THEN AmountScan(Strip(m.description), w, ended, 2)
                         ELSE [amount_str |-> on_line, description |-> Strip(m.description),
                               need |-> FALSE]} |->
          Let([amount_str \in {look.amount_str} |->
          Let([is_credit \in {Contains(amount_str, AllianceText.CR)} |->
          Let([number \in {IF is_credit THEN ReplaceFrom(amount_str, AllianceText.CR, <<>>, 1)
                           ELSE amount_str} |->
          Let([dates \in {CreditCardDates(m.posting_date, m.transaction_date, ctx.year)} |->
          Let([ns \in {NoteScan(<<>>, w, ended, 2)} |->
              IF look.need THEN [st |-> st, need |-> TRUE]
              ELSE IF amount_str = <<>> THEN [st |-> st1, need |-> FALSE]
              ELSE IF ~FloatOk(number)
              THEN [st |-> [st1 EXCEPT !.raised = "ValueError"], need |-> FALSE]
              ELSE IF ns.need THEN [st |-> st, need |-> TRUE]
              ELSE [st |-> AppendNew(st1,
                      [ date             |-> dates.transaction_date_str,
                        posting_date     |-> dates.posting_date_str,
                        description      |-> UsdRewrite(Strip(look.description)),
                        amount           |-> FloatCents(number),
                        transaction_type |-> IF is_credit THEN "credit" ELSE "debit",
                        bank             |-> "credit_card",
                        card_type        |-> st1.current_card.type,
                        card_number      |-> st1.current_card.masked_number,
                        notes            |-> JoinNotes(ns.notes),
                        statement_date   |-> ctx.statement_date ]),
                    need |-> FALSE]])])])])])])])])])])])])

\* one iteration of the line loop; ctx holds year and statement_date
CreditCardLine(st, w, ended, ctx) ==
    Let([line \in {Strip(w[1])} |->
    Let([is_name \in {Contains(line, CreditCardText.MUHAMMAD_MAHERILHAM)
                        \/ Contains(line, CreditCardText.ENCIK_MUHAMMAD_MAHERILHAM)} |->
    Let([scan \in {IF is_name THEN CardScan(st.current_card, w, ended, 2)
                   ELSE [card |-> st.current_card, need |-> FALSE]} |->
    Let([st1 \in {[st EXCEPT !.current_card = scan.card]} |->
        IF line = <<>> THEN [st |-> st, need |-> FALSE]
        ELSE IF scan.need THEN [st |-> st, need |-> TRUE]
        ELSE IF /\ Contains(line, CreditCardText.Posting_Date_slash)
                /\ Contains(line, CreditCardText.Transaction_Date_slash)
                /\ Contains(line, CreditCardText.Transaction_Description_slash)
        THEN [st |-> [st1 EXCEPT !.in_section = TRUE], need |-> FALSE]
        ELSE IF ~st1.in_section \/ st1.current_card = NoCard
        THEN [st |-> st1, need |-> FALSE]
        ELSE IF Contains(line, CreditCardText.TOTAL_CREDIT_THIS_MONTH) \/ Contains(line, CreditCardText.SUB_TOTAL_JUMLAH)
        THEN [st |-> [st1 EXCEPT !.in_section = FALSE], need |-> FALSE]
        ELSE IF ContainsAny(line, << CreditCardText.MUHAMMAD_MAHERILHAM, CreditCardText.MASTERCARD_IKHWAN,
                                     CreditCardText.YOUR_COMBINED_FACILITY, CreditCardText.TAX_INVOICE_NO, CreditCardText.GST,
                                     CreditCardText.Page_Halaman, CreditCardText.STATEMENT_OF_CREDIT >>)
        THEN [st |-> st1, need |-> FALSE]
        ELSE
        Let([m \in {CreditCardMatch(line)} |->
          IF ~m.ok THEN [st |-> st1, need |-> FALSE]
          ELSE
          Let([on_line \in {IF m.cr_flag THEN m.amount_str \o CreditCardText.space_CR
                            ELSE m.amount_str} |->
          Let([look \in {IF on_line = <<>>
                         THEN AmountScan(Strip(m.description), w, ended, 2)
                         ELSE [amount_str |-> on_line, description |-> Strip(m.description),
                               need |-> FALSE]} |->
          Let([amount_str \in {look.amount_str} |->
          Let([is_credit \in {Contains(amount_str, AllianceText.CR)} |->
          Let([number \in {IF is_credit THEN ReplaceFrom(amount_str, AllianceText.CR, <<>>, 1)
                           ELSE amount_str} |->
          Let([dates \in {CreditCardDates(m.posting_date, m.transaction_date, ctx.year)} |->
          Let([ns \in {NoteScan(<<>>, w, ended, 2)} |->
              IF look.need THEN [st |-> st, need |-> TRUE]
              ELSE IF amount_str = <<>> THEN [st |-> st1, need |-> FALSE]
              ELSE IF ~FloatOk(number)
              THEN [st |-> [st1 EXCEPT !.raised = "ValueError"], need |-> FALSE]
              ELSE IF ns.need THEN [st |-> st, need |-> TRUE]
              ELSE [st |-> AppendNew(st1,
                      [ date             |-> dates.transaction_date_str,
                        posting_date     |-> dates.posting_date_str,
                        description      |-> UsdRewrite(Strip(look.description)),
                        amount           |-> FloatCents(number),
                        transaction_type |-> IF is_credit THEN "credit" ELSE "debit",
                        bank             |-> "credit_card",
                        card_type        |-> st1.current_card.type,
                        card_number      |-> st1.current_card.masked_number,
                        notes            |-> JoinNotes(ns.notes),
                        statement_date   |-> ctx.statement_date ]),
                    need |-> FALSE]])])])])])])])])])])])])
(* ------------------------------------------------------------------ *)
(* The page loop of the four parsers                                   *)
(*                                                                     *)
(* A page is what extract_text() returns for it: None or its text.     *)
(* ------------------------------------------------------------------ *)
\* text.split('\n')
Split(text) ==
    LET cut(k) == IF k = 0 THEN 0
                  ELSE IF k = Len(text) + 1 THEN k
                  ELSE IF text[k] = "\n" THEN k ELSE -1
        cuts == {k \in 0..(Len(text) + 1) : cut(k) = k}
        nth(i) == CHOOSE k \in cuts : Cardinality({j \in cuts : j < k}) = i
    IN  [i \in 1..(Cardinality(cuts) - 1) |-> Slice(text, nth(i - 1) + 1, nth(i) - 1)]

\* "not text"
NoText(page) == page = None \/ page = <<>>

\* mutation: the Alliance page loop keeps the section flag of the page before
StartPage_alliance_carries(bank, st) ==
    CASE bank = "maybank"  -> MaybankStartPage(st)
      [] bank = "alliance" -> [st EXCEPT !.current_transaction = 0]
      [] OTHER             -> st

\* a page with text begins
StartPage(bank, st) ==
    CASE bank = "maybank"  -> MaybankStartPage(st)
      [] bank = "alliance" -> AllianceStartPage(st)
      [] OTHER             -> st

\* one iteration of the line loop of the parser of bank, as [st, need]
Line(bank, st, w, ended, ctx) ==
    CASE bank = "maybank"  -> [st |-> MaybankLine(st, w[1]), need |-> FALSE]
      [] bank = "cimb"     -> [st |-> CimbLine(st, w[1]), need |-> FALSE]
      [] bank = "alliance" -> [st |-> AllianceLine(st, w[1]), need |-> FALSE]
      [] OTHER             -> CreditCardLine(st, w, ended, ctx)

\* after the line loop of a page
EndPage(bank, st) ==
    CASE bank = "cimb"     -> CimbEndPage(st)
      [] bank = "alliance" -> AllianceEndPage(st)
      [] OTHER             -> st

\* a page without text: skipped, but the CIMB parser calls None.split
SkipPage(bank, st, page) ==
    IF bank = "cimb" /\ page = None THEN [st EXCEPT !.raised = "AttributeError"]
    ELSE st

\* the list the parser returns
Finalize(bank, st) ==
    CASE bank = "cimb"     -> CimbFinalize(st)
      [] bank = "alliance" -> AllianceFinalize(st)
      [] OTHER             -> Deref(st.heap, st.transactions)

\* "Extract year from filename if possible": file_year is the first run of
\* four digits in the stem of the file name, None for a name without one,
\* and then the year is str(datetime.now().year)
CardYear(file_year, now) == IF file_year # None THEN file_year ELSE Decimal(now)

\* year and statement_date of the credit card parser, fixed before the page loop
Context(year, first_page) ==
    [year |-> year,
     statement_date |-> IF first_page = None THEN None ELSE StatementDate(first_page)]

\* the state in which the page loop starts: the credit card parser reads
\* pages[0] first and fails without a first page or without its text
BeforePages(bank, pages) ==
    IF bank = "credit_card" /\ Len(pages) = 0
    THEN [ParserStart EXCEPT !.raised = "IndexError"]
    ELSE IF bank = "credit_card" /\ pages[1] = None
    THEN [ParserStart EXCEPT !.raised = "TypeError"]
    ELSE ParserStart

\* the line loop of a page from line i on
RECURSIVE ScanLines(_, _, _, _, _)
ScanLines(bank, st, lines, i, ctx) ==
    IF i > Len(lines) \/ st.stopped \/ st.raised # "None" THEN st
    ELSE ScanLines(bank, Line(bank, st, SubSeq(lines, i, Len(lines)), TRUE, ctx).st,
                   lines, i + 1, ctx)

\* one iteration of the page loop
ScanPage(bank, st, page, ctx) ==
    IF NoText(page) THEN SkipPage(bank, st, page)
    ELSE Let([st1 \in {ScanLines(bank, StartPage(bank, st), Split(page), 1, ctx)} |->
         IF st1.raised # "None" THEN st1 ELSE EndPage(bank, st1)])

\* the page loop from page i on
RECURSIVE ScanPages(_, _, _, _, _)
ScanPages(bank, st, pages, i, ctx) ==
    IF i > Len(pages) \/ st.raised # "None" THEN st
    ELSE ScanPages(bank, ScanPage(bank, st, pages[i], ctx), pages, i + 1, ctx)

\* parser_func(pdf_path): [raised, transactions]
Parse(bank, pages, year) ==
    Let([ctx \in {Context(year, IF Len(pages) = 0 THEN None ELSE pages[1])} |->
    Let([st \in {ScanPages(bank, BeforePages(bank, pages), pages, 1, ctx)} |->
        IF st.raised # "None" THEN [raised |-> st.raised, transactions |-> <<>>]
        ELSE [raised |-> "None", transactions |-> Finalize(bank, st)]])])

(* ------------------------------------------------------------------ *)
(* _generate_csv and _generate_summary                                 *)
(* ------------------------------------------------------------------ *)
credit_card_columns ==
    << "posting_date", "date", "description", "amount", "transaction_type",
       "card_type", "card_number", "notes", "statement_date" >>
\* the column list that lets the bank tag through
bank_columns_with_bank ==
    << "date", "description", "amount", "balance", "transaction_type", "bank" >>
bank_columns == << "date", "description", "amount", "balance", "transaction_type" >>

\* the keys any of the dicts has: the columns of the DataFrame
FrameColumns(transactions) ==
    UNION {DOMAIN transactions[i] : i \in 1..Len(transactions)}

\* _generate_csv(transactions, bank_type): <<>> is the empty string, else the
\* header row followed by one row of cell values per transaction
GenerateCsv(transactions, bank_type) ==
    IF transactions = <<>> THEN <<>>
    ELSE LET columns == IF bank_type = "credit_card" THEN credit_card_columns
                        ELSE bank_columns
             available_columns ==
                 SelectSeq(columns, LAMBDA c : c \in FrameColumns(transactions))
             row(t) == [j \in 1..Len(available_columns) |->
                           Get(t, available_columns[j], None)]
         IN  <<available_columns>> \o [i \in 1..Len(transactions) |-> row(transactions[i])]

\* the sum taken over the records of every type
RECURSIVE SumAmounts_any_type(_, _)
SumAmounts_any_type(transactions, type) ==
    IF transactions = <<>> THEN 0
    ELSE Head(transactions).amount + SumAmounts_any_type(Tail(transactions), type)

\* the sum of the amounts of the records of one type
RECURSIVE SumAmounts(_, _)
SumAmounts(transactions, type) ==
    IF transactions = <<>> THEN 0
    ELSE (IF Head(transactions).transaction_type = type THEN Head(transactions).amount ELSE 0)
           + SumAmounts(Tail(transactions), type)

CountType(transactions, type) ==
    Cardinality({i \in 1..Len(transactions) : transactions[i].transaction_type = type})

\* the day number an ISO date is ordered by
DateKey(s) ==
    DigitsToInt(Slice(s, 1, 4)) * 10000 + DigitsToInt(Slice(s, 6, 7)) * 100
        + DigitsToInt(Slice(s, 9, 10))

\* the first and the last day of a pandas Timestamp of nanosecond resolution
TimestampMin == 16770922
TimestampMax == 22620411

\* pd.to_datetime(df['date']) is library code. A column of ISO calendar dates
\* inside the Timestamp bounds it parses, whatever pandas is installed
ToDatetimeParses(transactions) ==
    \A i \in 1..Len(transactions) :
        /\ IsIsoCalendarDate(transactions[i].date)
        /\ DateKey(transactions[i].date) \in TimestampMin..TimestampMax

\* on any other column (a raw DD/MM text, a year of fewer than four digits,
\* a date outside the bounds) the pandas and dateutil installed decide
\* whether the call raises: pandas is the outcome they give
PandasOutcomes == {"parses", "raises"}
ToDatetimeRaises(transactions, pandas) ==
    ~ToDatetimeParses(transactions) /\ pandas = "raises"

\* what min() and max() of a parsed column are when a date of the column is
\* no ISO calendar date
UnknownDate == <<"?">>

T_midnight == <<"T","0","0",":","0","0",":","0","0">>

\* _generate_summary(transactions), amounts in cents; <<>> is the empty dict
GenerateSummary(transactions) ==
    IF transactions = <<>> THEN <<>>
    ELSE Let([idx \in {1..Len(transactions)} |->
         Let([iso \in {\A i \in idx : IsIsoCalendarDate(transactions[i].date)} |->
         Let([first \in {IF ~iso THEN 0 ELSE CHOOSE i \in idx :
                 \A j \in idx : DateKey(transactions[i].date) <= DateKey(transactions[j].date)} |->
         Let([last \in {IF ~iso THEN 0 ELSE CHOOSE i \in idx :
                 \A j \in idx : DateKey(transactions[i].date) >= DateKey(transactions[j].date)} |->
         Let([total_credits \in {SumAmounts(transactions, "credit")} |->
         Let([total_debits \in {SumAmounts(transactions, "debit")} |->
             [ total_transactions |-> Len(transactions),
               credit_count  |-> CountType(transactions, "credit"),
               debit_count   |-> CountType(transactions, "debit"),
               total_credits |-> total_credits,
               total_debits  |-> total_debits,
               net_amount    |-> total_credits - total_debits,
               date_range    |-> IF ~iso
                                  THEN [ start_date |-> UnknownDate, end_date |-> UnknownDate ]
                                  ELSE [ start_date |-> transactions[first].date \o T_midnight,
                                         end_date   |-> transactions[last].date \o T_midnight ] ]
             ])])])])])])

(* ------------------------------------------------------------------ *)
(* process_pdf                                                         *)
(* ------------------------------------------------------------------ *)
\* all_text: the texts of the pages that have one, each followed by "\n"
RECURSIVE AllText(_)
AllText(pages) ==
    IF pages = <<>> THEN <<>>
    ELSE IF NoText(Head(pages)) THEN AllText(Tail(pages))
    ELSE Head(pages) \o <<"\n">> \o AllText(Tail(pages))

\* mutation: every hint is taken as given
SelectBank_keeps_hint(obj, hint, all_text) ==
    IF hint \notin {"None", ""} THEN hint ELSE detect_bank_type(all_text)

\* "Use provided bank type or detect from content" and "Validate bank type
\* is supported" on the parser object obj; the hint "None" is None
SelectBank(obj, hint, all_text) ==
    Let([detected_bank_type \in {IF hint \notin {"None", ""} THEN hint
                                 ELSE detect_bank_type(all_text)} |->
        IF detected_bank_type \notin obj.supported_banks THEN "maybank"
        ELSE detected_bank_type])

\* mutation: the except branch returns no error string
FailureResult_without_error(error) ==
    [ success |-> FALSE, bank_type |-> "None",
      transactions |-> <<>>, csv_content |-> None ]

\* the dict of the except branch
FailureResult(error) ==
    [ success |-> FALSE, error |-> error, bank_type |-> "None",
      transactions |-> <<>>, csv_content |-> None ]

\* the dict returned after parsing, or the failure dict when the summary raises
SuccessResult(bank_type, transactions, pandas) ==
    IF ToDatetimeRaises(transactions, pandas) THEN FailureResult("ValueError")
    ELSE [ success |-> TRUE, bank_type |-> bank_type, transactions |-> transactions,
           csv_content |-> GenerateCsv(transactions, bank_type),
           summary |-> GenerateSummary(transactions) ]

\* process_pdf(pdf_path, processing_id, bank_type) on the parser object obj.
\* pdf_path.doc is the file: one that pdfplumber cannot open (opens is FALSE)
\* or one that holds the pages doc.pages; pdf_path.year is what the file name
\* gives for the year. host is what the call finds around it: the year of
\* the clock (now) and the outcome of pd.to_datetime (pandas)
ProcessPdf(obj, pdf_path, hint, host) ==
    IF ~pdf_path.doc.opens THEN FailureResult("Exception")
    ELSE Let([bank_type \in {SelectBank(obj, hint, AllText(pdf_path.doc.pages))} |->
         Let([p \in {Parse(bank_type, pdf_path.doc.pages,
                           CardYear(pdf_path.year, host.now))} |->
             IF p.raised # "None" THEN FailureResult(p.raised)
             ELSE SuccessResult(bank_type, p.transactions, host.pandas)])])

(* ------------------------------------------------------------------ *)
(* Documents: the lines the runs are made of                           *)
(* ------------------------------------------------------------------ *)
\* lines the documents of the runs are made of
SampleLine ==
    [
      mb_start       |-> <<"U","R","U","S","N","I","A","G","A"," ","A","K","A","U","N">>,
      mb_end         |-> <<"E","N","D","I","N","G"," ","B","A","L","A","N","C","E">>,
      mb_txn         |-> <<"0","1","/","0","1","/","2","0","2","4"," ","1","0","0",".","0","0"," ","5","0","0",".","0","0"," ","S","A","L","A","R","Y">>,
      mb_zero        |-> <<"0","2","/","0","1","/","2","0","2","4"," ","0",".","0","0"," ","5","0","0",".","0","0"," ","Z","E","R","O">>,
      mb_bad_date    |-> <<"3","1","/","0","2","/","2","0","2","4"," ","1",".","0","0"," ","2",".","0","0"," ","B","A","D">>,
      mb_text        |-> <<"T","R","A","N","S","F","E","R">>,
      cimb_start     |-> <<"D","a","t","e"," ","D","e","s","c","r","i","p","t","i","o","n"," ","C","h","e","q","u","e"," ","/"," ","R","e","f"," ","N","o"," ","W","i","t","h","d","r","a","w","a","l"," ","D","e","p","o","s","i","t","s"," ","T","a","x"," ","B","a","l","a","n","c","e">>,
      cimb_end       |-> <<"C","L","O","S","I","N","G"," ","B","A","L","A","N","C","E">>,
      cimb_txn       |-> <<"0","1","/","0","1","/","2","0","2","4"," ","S","A","L","A","R","Y"," ","1","0","0",".","0","0"," ","5","0","0",".","0","0">>,
      cimb_open      |-> <<"0","2","/","0","1","/","2","0","2","4"," ","S","H","O","P">>,
      cimb_amounts   |-> <<"K","E","D","A","I"," ","5",".","0","0"," ","4","9","5",".","0","0">>,
      cimb_bonus     |-> <<"0","3","/","0","1","/","2","0","2","4"," ","B","O","N","U","S"," ","5","0",".","0","0"," ","5","5","0",".","0","0">>,
      cimb_bad_date  |-> <<"3","1","/","0","2","/","2","0","2","4"," ","B","A","D"," ","1",".","0","0"," ","2",".","0","0">>,
      al_start       |-> <<"D","a","t","e"," ","T","r","a","n","s","a","c","t","i","o","n"," ","D","e","t","a","i","l">>,
      al_end         |-> <<"B","A","K","I"," ","A","K","H","I","R">>,
      al_credit      |-> <<"0","1","/","0","1","/","2","0","2","4"," ","S","A","L","A","R","Y"," ","1","0","0",".","0","0"," ","5","0","0",".","0","0"," ","C","R">>,
      al_debit       |-> <<"0","2","/","0","1","/","2","0","2","4"," ","S","H","O","P"," ","5",".","0","0"," ","4","9","5",".","0","0"," ","D","R">>,
      al_open        |-> <<"0","3","/","0","1","/","2","4"," ","P","A","Y">>,
      al_amounts     |-> <<"7",".","0","0"," ","9",".","0","0">>,
      al_amounts_cr  |-> <<"8",".","0","0"," ","1","7",".","0","0"," ","C","R">>,
      al_pair        |-> <<"0","4","/","0","1","/","2","0","2","4"," ","F","E","E"," ","2",".","0","0"," ","4","9","3",".","0","0">>,
      al_triple      |-> <<"0","5","/","0","1","/","2","0","2","4"," ","D","E","P"," ","0",".","0","0"," ","3",".","0","0"," ","4","9","6",".","0","0">>,
      al_bad_date    |-> <<"3","1","/","0","2","/","2","0","2","4"," ","B","A","D"," ","1",".","0","0"," ","2",".","0","0"," ","C","R">>,
      cc_name        |-> <<"M","U","H","A","M","M","A","D"," ","M","A","H","E","R","I","L","H","A","M">>,
      cc_card        |-> <<"P","L","A","T","I","N","U","M"," ","C","A","R","D"," ",":"," ","1","1","1","1"," ","2","2","2","2"," ","3","3","3","3"," ","4","4","4","4">>,
      cc_card_gold   |-> <<"G","O","L","D"," ","C","A","R","D"," ",":"," ","5","5","5","5"," ","6","6","6","6"," ","7","7","7","7"," ","8","8","8","8">>,
      cc_start       |-> <<"P","o","s","t","i","n","g"," ","D","a","t","e"," ","/"," ","T","r","a","n","s","a","c","t","i","o","n"," ","D","a","t","e"," ","/"," ","T","r","a","n","s","a","c","t","i","o","n"," ","D","e","s","c","r","i","p","t","i","o","n"," ","/">>,
      cc_end         |-> <<"T","O","T","A","L"," ","C","R","E","D","I","T"," ","T","H","I","S"," ","M","O","N","T","H">>,
      cc_txn         |-> <<"0","1","/","0","2"," ","2","9","/","0","2"," ","S","H","O","P"," ","2","5",".","5","0">>,
      cc_open        |-> <<"0","4","/","0","2"," ","0","5","/","0","2"," ","R","E","F","U","N","D">>,
      cc_amount      |-> <<"1","2",".","3","4"," ","C","R">>,
      cc_note        |-> <<"T","R","A","N","S","A","C","T","E","D"," ","A","M","O","U","N","T"," ","U","S","D"," ","5",".","0","0">>,
      cc_bad_date    |-> <<"3","1","/","0","2"," ","3","1","/","0","2"," ","B","A","D"," ","5",".","0","0">>,
      cc_bad_amount  |-> <<"0","8","/","0","2"," ","0","9","/","0","2"," ","B","A","D"," ","1",".","2","3","4",".","5","6">>,
      mb_formfeed    |-> <<"0","3","/","0","1","/","2","0","2","4"," ","1",".","0","0"," ","2",".","0","0"," ","\f">>,
      mb_return      |-> <<"0","4","/","0","1","/","2","0","2","4"," ","3",".","0","0"," ","4",".","0","0"," ","R","E","N","T","\r">>,
      mb_nbsp        |-> <<"0","5","/","0","1","/","2","0","2","4",Chr(160),"6",".","0","0",Chr(160),"7",".","0","0",Chr(160),"F","E","E",Chr(160)>>,
      mb_digits      |-> <<"1","U+0661","/","0","1","/","2","0","2","U+0664"," ","8",".","0","U+0660"," ","9",".","0","0"," ","Z","A","K","A","T">>,
      cimb_nbsp      |-> <<"0","4","/","0","1","/","2","0","2","4",Chr(160),"T","O","L","L"," ","6",".","0","0",Chr(160),"5","0","1",".","0","0","\r">>,
      cimb_amounts_tab |-> <<"R","U","N","C","I","T",Chr(160),"7",".","0","0","\t","4","8","8",".","0","0","\f">>,
      cimb_open_return |-> <<"0","5","/","0","1","/","2","0","2","4"," ","R","E","N","T","\r">>,
      al_single      |-> <<"0","6","/","0","1","/","2","0","2","4"," ","F","E","E"," ","2",".","0","0">>,
      al_cr_in_text  |-> <<"0","7","/","0","1","/","2","0","2","4"," ","S","C","R","A","P"," ","2",".","0","0"," ","4","9","3",".","0","0">>,
      al_withdrawal  |-> <<"0","8","/","0","1","/","2","0","2","4"," ","C","R"," ","3",".","0","0"," ","0",".","0","0"," ","4","9","0",".","0","0">>,
      al_nil         |-> <<"0","9","/","0","1","/","2","0","2","4"," ","N","I","L"," ","0",".","0","0"," ","0",".","0","0"," ","4","9","0",".","0","0">>,
      al_amount      |-> <<"6",".","0","0">>,
      al_columns     |-> <<Chr(160),"0",".","0","0"," ","5",".","0","0"," ","4","8","5",".","0","0","\r">>,
      al_nbsp        |-> <<"1","0","/","0","1","/","2","0","2","4",Chr(160),"T","O","L","L"," ","4",".","0","0",Chr(160),"4","8","6",".","0","0"," ","C","R","\r">>,
      cc_gst_open    |-> <<"0","6","/","0","2"," ","0","7","/","0","2"," ","G","S","T"," ","R","E","F","U","N","D">>,
      cc_bad_bare    |-> <<"1",".","2","3","4",".","5","6">>,
      cc_nbsp        |-> <<"1","0","/","0","2",Chr(160),"1","1","/","0","2",Chr(160),"T","O","L","L",Chr(160),"3",".","0","0",Chr(160),"C","R","\r">>,
      blank          |-> <<" ">>,
      statement_date |-> <<"S","t","a","t","e","m","e","n","t"," ","D","a","t","e","/"," ","T","a","r","i","k","h"," ","P","e","n","y","a","t","a"," ","1","5"," ","J","A","N"," ","2","4">>
    ]

MaxFront == 1   \* lines of page 1 drawn from FrontLines
MaxLines == 4   \* lines of a document drawn from FeedLines
MaxPages == 2   \* pages of a document

\* lines that carry what the detector and the statement-date search look for;
\* they only occur at the top of page 1
FrontLines ==
    { Fragment.Maybank, Fragment.CIMB, Fragment.Alliance_Bank, Fragment.TAX_INVOICE,
      SampleLine.statement_date }
SeqsUpTo(S, n) == UNION {[1..k -> S] : k \in 0..n}
\* the top of a card statement whose first page names the holder, the card
\* and the transaction table
CardPrelude == <<SampleLine.cc_name, SampleLine.cc_card_gold, SampleLine.cc_start>>
Fronts == SeqsUpTo(FrontLines, MaxFront) \cup {CardPrelude}

\* lines of the layout of each bank
FeedLines(bank) ==
    CASE bank = "maybank" ->
           { SampleLine.mb_start, SampleLine.mb_end, SampleLine.mb_txn,
             SampleLine.mb_zero, SampleLine.mb_bad_date, SampleLine.mb_text }
      [] bank = "cimb" ->
           { SampleLine.cimb_start, SampleLine.cimb_end, SampleLine.cimb_txn,
             SampleLine.cimb_open, SampleLine.cimb_amounts, SampleLine.cimb_bonus,
             SampleLine.cimb_bad_date }
      [] bank = "alliance" ->
           { SampleLine.al_start, SampleLine.al_end, SampleLine.al_credit,
             SampleLine.al_debit, SampleLine.al_open, SampleLine.al_amounts, SampleLine.al_amounts_cr, SampleLine.al_pair, SampleLine.al_triple,
             SampleLine.al_bad_date }
      [] OTHER ->
           { SampleLine.cc_name, SampleLine.cc_card, SampleLine.cc_start,
             SampleLine.cc_end, SampleLine.cc_txn, SampleLine.cc_open,
             SampleLine.cc_amount, SampleLine.cc_note, SampleLine.cc_bad_date, SampleLine.cc_bad_amount,
             SampleLine.blank }

\* lines of the layout of each bank as a text extraction can give them: with
\* a carriage return, a form feed, a tab or a no-break space where FeedLines
\* has a blank or nothing, with digits that are not ASCII, with one, two
\* or three amount columns and with the words the parsers look for inside a
\* description
WideLines(bank) ==
    CASE bank = "maybank" ->
           { SampleLine.mb_start, SampleLine.mb_end, SampleLine.mb_txn, SampleLine.mb_zero,
             SampleLine.mb_text, SampleLine.mb_formfeed, SampleLine.mb_return,
             SampleLine.mb_nbsp, SampleLine.mb_digits }
      [] bank = "cimb" ->
           { SampleLine.cimb_start, SampleLine.cimb_end, SampleLine.cimb_txn,
             SampleLine.cimb_open, SampleLine.cimb_amounts, SampleLine.cimb_nbsp,
             SampleLine.cimb_amounts_tab, SampleLine.cimb_open_return }
      [] bank = "alliance" ->
           { SampleLine.al_start, SampleLine.al_credit, SampleLine.al_open,
             SampleLine.al_amounts_cr, SampleLine.al_pair, SampleLine.al_triple,
             SampleLine.al_single, SampleLine.al_cr_in_text, SampleLine.al_withdrawal,
             SampleLine.al_nil, SampleLine.al_amount, SampleLine.al_columns,
             SampleLine.al_nbsp }
      [] OTHER ->
           { SampleLine.cc_name, SampleLine.cc_card, SampleLine.cc_start,
             SampleLine.cc_end, SampleLine.cc_txn, SampleLine.cc_open,
             SampleLine.cc_amount, SampleLine.cc_note, SampleLine.cc_gst_open,
             SampleLine.cc_bad_bare, SampleLine.cc_nbsp }

\* no line of a layout changes what the detector or the statement-date search
\* find, so both can be computed from the front lines alone
FeedIsNeutral ==
    \A l \in UNION {FeedLines(b) \cup WideLines(b) : b \in supported_banks} :
        /\ ~HasCreditCardIndicator(Lower(l))
        /\ ~HasMaybankKeyword(Lower(l))
        /\ ~HasCimbKeyword(Lower(l))
        /\ ~HasAllianceKeyword(Lower(l))
        /\ ~Contains(Lower(l), DetectorText.credit_card)
        /\ ~Contains(Lower(l), DetectorText.mastercard)
        /\ ~Contains(Lower(l), DetectorText.visa)
        /\ ~Contains(Lower(l), DetectorText.statement)
        /\ ~Contains(l, CreditCardText.Statement_Date_slash)
        /\ ~Contains(l, CreditCardText.Tarikh_Penyata)

Hints == {"None", "", "maybank", "cimb", "alliance", "credit_card", "hsbc"}
\* the year the name of the file gives: four digits, or None for a name
\* without them
FileYears == {<<"2","0","2","3">>, None}

\* the years the clock shows: the one in which the runs start and the next
FirstYear == 2024
ClockYears == {FirstYear, FirstYear + 1}

(* ------------------------------------------------------------------ *)
(* What the parsers take for markers and start lines                   *)
(* ------------------------------------------------------------------ *)
\* the line turns the section flag of the parser of bank on
IsSectionStart(bank, raw) ==
    LET line == Strip(raw) IN
    CASE bank = "maybank" ->
           Contains(line, MaybankText.URUSNIAGA_AKAUN) \/ Contains(line, MaybankText.ACCOUNT_TRANSACTIONS)
      [] bank = "cimb" -> Contains(line, CimbText.CIMB_HEADER)
      [] bank = "alliance" -> AllianceHeaderFound(line)
      [] OTHER -> /\ Contains(line, CreditCardText.Posting_Date_slash)
                  /\ Contains(line, CreditCardText.Transaction_Date_slash)
                  /\ Contains(line, CreditCardText.Transaction_Description_slash)

\* the line reaches the section-end test of the parser of bank and passes
\* it: the tests the line loop makes before it have all failed. The credit
\* card parser makes the test only inside a section with a card detected
IsSectionEnd(bank, raw) ==
    LET line == Strip(raw) IN
    CASE bank = "maybank" ->
           /\ ~IsSectionStart(bank, raw)
           /\ Contains(line, MaybankText.ENDING_BALANCE) \/ Contains(line, MaybankText.BAKI_AKHIR)
      [] bank = "cimb" ->
           /\ ~Contains(line, CimbText.CIMB_HEADER)
           /\ ~Contains(line, CimbText.CIMB_BILINGUAL)
           /\ line # CimbText.RM4
           /\ ~Contains(line, CimbText.OPENING_BALANCE)
           /\ Contains(line, CimbText.CLOSING_BALANCE) \/ Contains(line, CimbText.BAKI_PENUTUP)
      [] bank = "alliance" ->
           /\ ~AllianceHeaderFound(line)
           /\ ~AllianceBilingualSkip(line)
           /\ AllianceSectionEnd(line)
      [] OTHER ->
           /\ ~IsSectionStart(bank, raw)
           /\ Contains(line, CreditCardText.TOTAL_CREDIT_THIS_MONTH)
                \/ Contains(line, CreditCardText.SUB_TOTAL_JUMLAH)

\* the line matches the transaction-start pattern of the parser of bank
IsStartLine(bank, raw) ==
    LET line == Strip(raw) IN
    CASE bank = "maybank"  -> MaybankMatch(line).ok
      [] bank = "cimb"     -> CimbDateMatch(line).ok
      [] bank = "alliance" -> AllianceDateMatch(line).ok
      [] OTHER             -> CreditCardMatch(line).ok

(* ------------------------------------------------------------------ *)
(* State                                                               *)
(* ------------------------------------------------------------------ *)
VARIABLES
    dt_pc,        \* detector run: "input" before the call, "returned" after
    dt_text,      \* pdf_text of the call
    dt_alt,       \* a second text with the same letters in another case
    dt_out,       \* detect_bank_type(dt_text)
    dt_alt_out,   \* detect_bank_type(dt_alt)
    pc,           \* process_pdf: "start", "scan" (in the parser's page loop),
                  \* "parsed" (the parser has returned), "done" (result returned)
    hint,         \* the bank_type argument, "None" for None
    opens,        \* pdfplumber.open succeeded
    bank,         \* detected_bank_type after validation
    ctx,          \* year and statement_date of the credit card parser
    pageno,       \* pages the page loop has begun
    in_page,      \* the line loop of a page with text is running
    plines,       \* lines of the current page known so far
    nlines,       \* lines drawn from FeedLines so far
    ahead,        \* known lines of the current page not yet handled
    ahead_end,    \* the page ends after ahead
    pst,          \* the locals of the parser
    parsed,       \* the list the parser returned
    result,       \* the dict process_pdf returned
    seen_start,   \* a section-start marker line occurred in the document
    after_end,    \* the last marker line handled was a named section-end marker
    self,         \* the PDFTransactionParser object the calls are made on
    calls,        \* the process_pdf calls made on self so far, with their results
    svc           \* the web service: the request being handled and its response

detVars == <<dt_pc, dt_text, dt_alt, dt_out, dt_alt_out>>
docVars == <<pageno, in_page, plines, nlines, ahead, ahead_end, seen_start>>
procVars == <<pc, hint, opens, bank, ctx, pst, parsed, result, after_end>>
callVars == <<self, calls, svc>>
vars == <<detVars, docVars, procVars, callVars>>

NoContext == [year |-> None, statement_date |-> None]
NoResult == [pending |-> TRUE]

\* no request has reached the service
NoService == [pc |-> "idle", other |-> [pc |-> "none"]]

\* PDFTransactionParser(): the object as __init__ leaves it
NewParser == [supported_banks |-> supported_banks]

\* process_pdf has not been called
ProcIdle(at) ==
    /\ self = NewParser /\ calls = <<>> /\ svc = NoService
    /\ pc = at /\ hint = "None" /\ opens = FALSE /\ bank = "None"
    /\ ctx = NoContext /\ pageno = 0 /\ in_page = FALSE /\ plines = 0 /\ nlines = 0
    /\ ahead = <<>> /\ ahead_end = FALSE /\ pst = ParserStart /\ parsed = <<>>
    /\ result = NoResult /\ seen_start = FALSE /\ after_end = FALSE

\* detect_bank_type is not under test
DetIdle ==
    /\ dt_pc = "idle" /\ dt_text = <<>> /\ dt_alt = <<>>
    /\ dt_out = "none" /\ dt_alt_out = "none"

(* ------------------------------------------------------------------ *)
(* Detector runs                                                       *)
(* ------------------------------------------------------------------ *)
DetectFragments ==
    { Fragment.Maybank, Fragment.Malayan_Banking, Fragment.CIMB, Fragment.Alliance_Bank, Fragment.TAX_INVOICE,
      Fragment.Card_Statement, Fragment.Visa, Fragment.Statement, Fragment.Mastercard, Fragment.Credit_Card,
      Fragment.Penyata_Kelvin, Fragment.Maybank_Kelvin, Fragment.Cimb_dotless }

\* page texts joined with "\n", as process_pdf builds all_text
DetectTexts == {JoinLines(fs) : fs \in SeqsUpTo(DetectFragments, MaxFrags)}

CaseVariants(t) == {Lower(t), Upper(t)}

DetInit ==
    /\ dt_pc = "input"
    /\ dt_text \in DetectTexts
    /\ dt_alt \in CaseVariants(dt_text)
    /\ dt_out = "none"
    /\ dt_alt_out = "none"
    /\ ProcIdle("idle")

DetectCall ==
    /\ dt_pc = "input"
    /\ dt_out' = detect_bank_type(dt_text)
    /\ dt_alt_out' = detect_bank_type(dt_alt)
    /\ dt_pc' = "returned"
    /\ UNCHANGED <<dt_text, dt_alt, docVars, procVars, callVars>>

DetNext == DetectCall

SpecDetect == DetInit /\ [][DetNext]_vars

(* ------------------------------------------------------------------ *)
(* process_pdf runs                                                    *)
(* ------------------------------------------------------------------ *)
Init == DetIdle /\ ProcIdle("start")

\* the except branch of process_pdf: the exception ends the run
Fail(error) ==
    /\ pc' = "done"
    /\ result' = FailureResult(error)

\* the marker bookkeeping of a line the line loop has read
AfterEnd(was, b, line) ==
    IF IsSectionStart(b, line) THEN FALSE
    ELSE IF IsSectionEnd(b, line) /\ ContainsAny(line, << CimbText.CLOSING_BALANCE, MaybankText.ENDING_BALANCE,
                                                          MaybankText.BAKI_AKHIR >>)
    THEN TRUE ELSE was

\* process_pdf from its call to the first page of the parser's page loop:
\* the file is opened, all_text is built, the bank is selected, the parser
\* is called and begins page 1. The calls are those of d: a hint of d.hints,
\* a first page that begins with one of d.fronts, a bank of d.banks, a file
\* name that gives one of d.file_years and a clock that shows one of d.clock
OpenOf(d) ==
    /\ pc = "start"
    /\ \E h \in d.hints, o \in {"corrupt", "nopages", "absent", "empty", "text"} :
       \E f \in (IF o = "text" THEN d.fronts ELSE {<<>>}) :
       \E page1 \in {IF o = "absent" THEN None ELSE JoinLines(f)} :
       \E pages \in {IF o = "nopages" THEN <<>> ELSE <<page1>>} :
       \E b \in {SelectBank(self, h, AllText(pages))} \cap d.banks :
       \E y \in (IF b = "credit_card" /\ o # "corrupt"
                 THEN {CardYear(fy, now) : fy \in d.file_years, now \in d.clock}
                 ELSE {None}) :
       \E st0 \in {BeforePages(b, pages)} :
       \E st1 \in {IF st0.raised # "None" \/ o = "nopages" THEN st0
                   ELSE IF o = "text" THEN StartPage(b, st0)
                   ELSE SkipPage(b, st0, page1)} :
         /\ hint' = h
         /\ opens' = (o # "corrupt")
         /\ bank' = IF o = "corrupt" THEN "None" ELSE b
         /\ ctx' = IF b = "credit_card" /\ o # "corrupt"
                   THEN Context(y, IF o = "nopages" THEN None ELSE page1)
                   ELSE NoContext
         /\ pst' = IF o = "corrupt" THEN pst ELSE st1
         /\ pageno' = IF o \in {"corrupt", "nopages"} THEN 0 ELSE 1
         /\ in_page' = (o = "text" /\ st1.raised = "None")
         /\ ahead' = f
         /\ plines' = Len(f)
         /\ seen_start' = \E i \in 1..Len(f) : IsSectionStart(b, f[i])
         /\ IF o = "corrupt" THEN Fail("Exception") /\ parsed' = parsed
            ELSE IF st1.raised # "None" THEN Fail(st1.raised) /\ parsed' = parsed
            ELSE IF o = "nopages"
            THEN pc' = "parsed" /\ parsed' = Finalize(b, st1) /\ result' = result
            ELSE pc' = "scan" /\ UNCHANGED <<parsed, result>>
    /\ UNCHANGED <<detVars, callVars, nlines, ahead_end, after_end>>

\* a document of any bank: whatever bank the selection gives is used
Open == OpenOf([banks |-> supported_banks \cup Hints, hints |-> Hints, fronts |-> Fronts,
               file_years |-> FileYears, clock |-> {FirstYear}])

\* the page loop reaches a further page
NextPage ==
    /\ pc = "scan" /\ ~in_page /\ pageno < MaxPages
    /\ \E o \in {"absent", "empty", "text"} :
       \E st1 \in {IF o = "text" THEN StartPage(bank, pst)
                   ELSE SkipPage(bank, pst, IF o = "absent" THEN None ELSE <<>>)} :
         /\ o = "text" => nlines < MaxLines
         /\ pst' = st1
         /\ in_page' = (o = "text")
         /\ IF st1.raised # "None" THEN Fail(st1.raised)
            ELSE UNCHANGED <<pc, result>>
    /\ pageno' = pageno + 1
    /\ ahead' = <<>> /\ ahead_end' = FALSE /\ plines' = 0
    /\ UNCHANGED <<detVars, callVars, hint, opens, bank, ctx, parsed, nlines, seen_start, after_end>>

\* the handler of the next line cannot run on what is known of the page
NeedsLine ==
    IF ahead = <<>> THEN TRUE
    ELSE ~pst.stopped /\ Line(bank, pst, ahead, FALSE, ctx).need

\* the page turns out to hold one more line, one of lines
RevealOf(lines) ==
    /\ pc = "scan" /\ in_page /\ ~ahead_end /\ NeedsLine
    /\ nlines < MaxLines
    /\ \E l \in lines :
         /\ ahead' = Append(ahead, l)
         /\ seen_start' = (seen_start \/ IsSectionStart(bank, l))
    /\ nlines' = nlines + 1
    /\ plines' = plines + 1
    /\ UNCHANGED <<detVars, callVars, procVars, pageno, in_page, ahead_end>>

RevealLine == RevealOf(FeedLines(bank))

\* the page turns out to hold no more lines
RevealEnd ==
    /\ pc = "scan" /\ in_page /\ ~ahead_end /\ NeedsLine
    /\ plines >= 1
    /\ ahead_end' = TRUE
    /\ UNCHANGED <<detVars, callVars, procVars, pageno, in_page, plines, nlines, ahead, seen_start>>

\* one iteration of the line loop of the selected parser; after a break the
\* remaining lines of the page are passed over
ScanLine ==
    /\ pc = "scan" /\ in_page /\ ahead # <<>>
    /\ \E r \in {IF pst.stopped THEN [st |-> pst, need |-> FALSE]
                 ELSE Line(bank, pst, ahead, ahead_end, ctx)} :
         /\ ~r.need
         /\ pst' = r.st
         /\ IF r.st.raised # "None" THEN Fail(r.st.raised)
            ELSE UNCHANGED <<pc, result>>
    /\ after_end' = IF pst.stopped THEN after_end ELSE AfterEnd(after_end, bank, ahead[1])
    /\ ahead' = Tail(ahead)
    /\ UNCHANGED <<detVars, callVars, hint, opens, bank, ctx, parsed, pageno, in_page, plines,
                   nlines, ahead_end, seen_start>>

\* the line loop of the page is over
EndOfPage ==
    /\ pc = "scan" /\ in_page /\ ahead = <<>> /\ ahead_end
    /\ pst' = EndPage(bank, pst)
    /\ in_page' = FALSE
    /\ UNCHANGED <<detVars, callVars, pc, hint, opens, bank, ctx, parsed, result, after_end,
                   pageno, plines, nlines, ahead, ahead_end, seen_start>>

\* the page loop is over: the parser finalizes and returns its list
ParserReturn ==
    /\ pc = "scan" /\ ~in_page
    /\ parsed' = Finalize(bank, pst)
    /\ pc' = "parsed"
    /\ UNCHANGED <<detVars, callVars, docVars, hint, opens, bank, ctx, pst, result, after_end>>

\* process_pdf after the parser: csv, summary and the returned dict
Finish ==
    /\ pc = "parsed"
    /\ \E pandas \in PandasOutcomes : result' = SuccessResult(bank, parsed, pandas)
    /\ pc' = "done"
    /\ UNCHANGED <<detVars, callVars, docVars, hint, opens, bank, ctx, pst, parsed, after_end>>

Next ==
    \/ Open
    \/ NextPage
    \/ RevealLine
    \/ RevealEnd
    \/ ScanLine
    \/ EndOfPage
    \/ ParserReturn
    \/ Finish

Spec == Init /\ [][Next]_vars

(* ------------------------------------------------------------------ *)
(* Documents of one bank, drawn from the wider set of lines            *)
(* ------------------------------------------------------------------ *)
RevealWide == RevealOf(WideLines(bank))

OpenMaybank == OpenOf([banks |-> {"maybank"}, hints |-> {"maybank"}, fronts |-> {<<>>},
                      file_years |-> FileYears, clock |-> {FirstYear}])
NextMaybank ==
    \/ OpenMaybank
    \/ NextPage
    \/ RevealWide
    \/ RevealEnd
    \/ ScanLine
    \/ EndOfPage
    \/ ParserReturn
    \/ Finish
SpecMaybank == Init /\ [][NextMaybank]_vars

OpenCimb == OpenOf([banks |-> {"cimb"}, hints |-> {"cimb"}, fronts |-> {<<>>},
                      file_years |-> FileYears, clock |-> {FirstYear}])
NextCimb ==
    \/ OpenCimb
    \/ NextPage
    \/ RevealWide
    \/ RevealEnd
    \/ ScanLine
    \/ EndOfPage
    \/ ParserReturn
    \/ Finish
SpecCimb == Init /\ [][NextCimb]_vars

OpenAlliance == OpenOf([banks |-> {"alliance"}, hints |-> {"alliance"}, fronts |-> {<<>>},
                      file_years |-> FileYears, clock |-> {FirstYear}])
NextAlliance ==
    \/ OpenAlliance
    \/ NextPage
    \/ RevealWide
    \/ RevealEnd
    \/ ScanLine
    \/ EndOfPage
    \/ ParserReturn
    \/ Finish
SpecAlliance == Init /\ [][NextAlliance]_vars

OpenCard == OpenOf([banks |-> {"credit_card"}, hints |-> {"credit_card"},
                  fronts |-> {<<SampleLine.cc_start>>, CardPrelude},
                  file_years |-> {None}, clock |-> {FirstYear}])
NextCard ==
    \/ OpenCard
    \/ NextPage
    \/ RevealWide
    \/ RevealEnd
    \/ ScanLine
    \/ EndOfPage
    \/ ParserReturn
    \/ Finish
SpecCard == Init /\ [][NextCard]_vars

(* ------------------------------------------------------------------ *)
(* Several process_pdf calls on one parser object                      *)
(* ------------------------------------------------------------------ *)
MaxCalls == 3   \* calls made on one object

\* the documents of the calls: a file that pdfplumber opens holds one page
\* with the given lines
CallDoc(lines) == [opens |-> TRUE, pages |-> <<JoinLines(lines)>>]

\* the arguments of the calls: documents that leave an open record, a section
\* flag or a card behind, documents that would pick them up, card statements
\* that name a second card, card statements with a transaction whose amount
\* and note stand on the two lines after it, and a card statement whose file
\* name holds no year (year is None)
CallArgs ==
    LET y2024 == <<"2","0","2","4">>
        y2023 == <<"2","0","2","3">>
    IN
    { [doc |-> CallDoc(CardPrelude \o <<SampleLine.cc_txn, SampleLine.cc_open>>),
       year |-> y2023, hint |-> "credit_card"],
      [doc |-> CallDoc(<<Fragment.CIMB, SampleLine.cimb_start, SampleLine.cimb_txn, SampleLine.cimb_open>>),
       year |-> y2024, hint |-> "None"],
      [doc |-> CallDoc(<<SampleLine.cimb_amounts, SampleLine.cimb_txn>>),
       year |-> y2024, hint |-> "cimb"],
      [doc |-> CallDoc(CardPrelude \o <<SampleLine.cc_txn, SampleLine.cc_open>>),
       year |-> y2024, hint |-> "credit_card"],
      [doc |-> CallDoc(<<SampleLine.cc_txn, SampleLine.cc_amount>>),
       year |-> y2024, hint |-> "credit_card"],
      [doc |-> CallDoc(<<SampleLine.cc_txn, SampleLine.cc_amount>>),
       year |-> y2024, hint |-> "None"],
      [doc |-> CallDoc(<<SampleLine.mb_start, SampleLine.mb_text, SampleLine.mb_txn>>),
       year |-> y2024, hint |-> "None"],
      [doc |-> CallDoc(<<SampleLine.mb_txn>>),
       year |-> y2024, hint |-> "hsbc"],
      [doc |-> CallDoc(<<SampleLine.al_start, SampleLine.al_credit, SampleLine.al_open>>),
       year |-> y2024, hint |-> "alliance"],
      [doc |-> CallDoc(CardPrelude \o <<SampleLine.cc_name, SampleLine.cc_note,
                                        SampleLine.cc_card, SampleLine.cc_txn>>),
       year |-> y2024, hint |-> "credit_card"],
      [doc |-> CallDoc(CardPrelude \o <<SampleLine.cc_name, SampleLine.cc_card, SampleLine.cc_txn>>),
       year |-> y2024, hint |-> "credit_card"],
      [doc |-> CallDoc(<<SampleLine.cc_name, SampleLine.cc_note, SampleLine.cc_card,
                         SampleLine.cc_start, SampleLine.cc_txn>>),
       year |-> y2024, hint |-> "credit_card"],
      [doc |-> CallDoc(CardPrelude \o <<SampleLine.cc_open, SampleLine.cc_open, SampleLine.cc_amount>>),
       year |-> y2024, hint |-> "credit_card"],
      [doc |-> CallDoc(<<SampleLine.cc_start, SampleLine.cc_txn, SampleLine.cc_name,
                         SampleLine.cc_card, SampleLine.cc_open, SampleLine.cc_amount>>),
       year |-> y2024, hint |-> "credit_card"],
      [doc |-> CallDoc(CardPrelude \o <<SampleLine.cc_txn, SampleLine.cc_open>>),
       year |-> None, hint |-> "credit_card"],
      [doc |-> CallDoc(CardPrelude \o <<SampleLine.cc_open, SampleLine.cc_amount, SampleLine.cc_note>>),
       year |-> y2024, hint |-> "credit_card"],
      [doc |-> CallDoc(CardPrelude \o <<SampleLine.cc_gst_open, SampleLine.cc_amount, SampleLine.cc_note>>),
       year |-> y2024, hint |-> "credit_card"],
      [doc |-> [opens |-> FALSE, pages |-> <<>>], year |-> y2024, hint |-> "None"] }

\* mutation: the object remembers the bank of its last call and takes it
\* for the hint of a call that gives none
Invoke_remembers_bank(obj, pdf_path, bank_type, host) ==
    Let([h \in {IF bank_type = "None" /\ "last_bank" \in DOMAIN obj THEN obj.last_bank
                ELSE bank_type} |->
    Let([r \in {ProcessPdf(obj, pdf_path, h, host)} |->
        [obj |-> [k \in DOMAIN obj \cup {"last_bank"} |->
                     IF k = "last_bank" THEN r.bank_type ELSE obj[k]],
         result |-> r]])])

\* obj.process_pdf(pdf_path, processing_id, bank_type): the object after the
\* call and the dict returned. The method reads self.supported_banks; it and
\* the parsers it calls assign locals only, never an attribute of self
Invoke(obj, pdf_path, bank_type, host) ==
    [obj |-> obj, result |-> ProcessPdf(obj, pdf_path, bank_type, host)]

CallsInit ==
    /\ DetIdle
    /\ ProcIdle("calls")

\* one more call on the object. The clock is read by the card parser when
\* the file name holds no year, and it never goes back; the library gives
\* one outcome for one column of dates. A call is recorded with what it was
\* given and what it found: now is 0 when the clock was not read, and
\* pandas is "parses" when the outcome was not left to the library
Call ==
    /\ pc = "calls" /\ Len(calls) < MaxCalls
    /\ \E a \in CallArgs :
       \E now \in (IF a.year = None THEN ClockYears ELSE {FirstYear}) :
       \E pdf_path \in {[doc |-> a.doc, year |-> a.year]} :
       \E r1 \in {Invoke(self, pdf_path, a.hint, [now |-> now, pandas |-> "parses"])} :
       \E pandas \in (IF r1.result.success /\ ~ToDatetimeParses(r1.result.transactions)
                      THEN PandasOutcomes ELSE {"parses"}) :
       \E r \in {IF pandas = "parses" THEN r1
                  ELSE Invoke(self, pdf_path, a.hint, [now |-> now, pandas |-> pandas])} :
       \E c \in {[args |-> a,
                   now |-> IF /\ a.year = None /\ a.doc.opens
                              /\ SelectBank(self, a.hint, AllText(a.doc.pages)) = "credit_card"
                           THEN now ELSE 0,
                   pandas |-> pandas,
                   result |-> r.result]} :
         /\ \A i \in 1..Len(calls) :
               /\ (c.now # 0 /\ calls[i].now # 0) => calls[i].now <= c.now
               /\ (calls[i].args = a /\ calls[i].now = c.now) => calls[i].pandas = c.pandas
         /\ self' = r.obj
         /\ calls' = Append(calls, c)
    /\ UNCHANGED <<detVars, docVars, procVars, svc>>

CallsNext == Call

SpecCalls == CallsInit /\ [][CallsNext]_vars
(* ------------------------------------------------------------------ *)
(* The web service: /process and /process-batch of main.py             *)
(* ------------------------------------------------------------------ *)
MaxFiles == 3   \* files of a batch drawn freely from Uploads

\* raise HTTPException(status_code=..., detail=...)
HTTPException(status_code, detail) ==
    [raised |-> "HTTPException", status_code |-> status_code, detail |-> detail]

\* JSONResponse(status_code=..., content=...)
JSONResponse(status_code, content) == [status_code |-> status_code, content |-> content]

\* an argument that is None, and the Form(None) object that stands for
\* supabase_url when the handler is called as a plain function
NoUpload == [absent |-> TRUE]
FormDefault == [form_default |-> TRUE]

\* s.endswith(suffix)
EndsWith(s, suffix) ==
    Len(s) >= Len(suffix) /\ SubSeq(s, Len(s) - Len(suffix) + 1, Len(s)) = suffix

\* "Map bank name to parser type" of the /process handler
BankTypeOf(bank_name) ==
    Let([name \in {Lower(bank_name)} |->
        IF Contains(name, <<"m","a","y","b","a","n","k">>) THEN "maybank"
        ELSE IF Contains(name, <<"c","i","m","b">>) THEN "cimb"
        ELSE IF Contains(name, <<"a","l","l","i","a","n","c","e">>) THEN "alliance"
        ELSE IF Contains(name, <<"c","r","e","d","i","t">>) THEN "credit_card"
        ELSE "maybank"])

\* the handler of POST /process reaches "content = await file.read()": a file
\* is given and its name ends in .pdf. It is the only await of the handler
AwaitsRead(file) ==
    file # NoUpload /\ EndsWith(Lower(file.filename), <<".","p","d","f">>)

\* the handler of POST /process. file is NoUpload or an upload with its name,
\* the document its bytes hold and the year the name of the temporary file
\* gives (four digits of its random name, or None); supabase_url is NoUpload
\* or what the download gives; bank_name is the bank_accounts row found for
\* bank_account_id, None without a client, an id or a row; storage tells
\* whether a client exists and whether its upload succeeds (csv_content is
\* None in a failure dict and '' for an empty list, both falsy); host is
\* what the parser finds around it. The result is the response returned or
\* the HTTPException raised. parser.process_pdf catches every Exception, so
\* the two status 500 branches around it are not taken.
process_pdf(file, supabase_url, bank_name, storage, host) ==
    IF file = NoUpload /\ supabase_url = NoUpload
    THEN HTTPException(400, "Either file upload or supabase_url must be provided")
    ELSE IF file # NoUpload /\ ~EndsWith(Lower(file.filename), <<".","p","d","f">>)
    THEN HTTPException(400, "Only PDF files are supported")
    ELSE IF file = NoUpload /\ ~supabase_url.ok
    THEN HTTPException(400, "Failed to download PDF from Supabase")
    ELSE
    Let([content \in {IF file # NoUpload THEN file ELSE supabase_url} |->
    Let([bank_type \in {IF bank_name = None THEN "None" ELSE BankTypeOf(bank_name)} |->
    Let([r \in {ProcessPdf(NewParser, [doc |-> content.doc, year |-> content.year],
                            bank_type, host)} |->
    Let([csv_download_url \in {IF storage = "ok" /\ r.success /\ r.csv_content # <<>>
                               THEN "url" ELSE "None"} |->
        JSONResponse(200,
            [ success |-> TRUE,
              message |-> "PDF processed successfully",
              data    |-> [ bank_detected     |-> r.bank_type,
                            transactions      |-> r.transactions,
                            transaction_count |-> Len(r.transactions),
                            csv_download_url  |-> csv_download_url,
                            summary           |-> Get(r, "summary", <<>>) ] ])])])])])

\* the head of process_batch_pdfs: the size test and the empty results list
BatchAccept(req) ==
    IF Len(req.files) > 10
    THEN [req EXCEPT !.pc = "done",
                     !.response = HTTPException(400, "Maximum 10 files allowed per batch")]
    ELSE [req EXCEPT !.pc = "loop"]

\* mutation: the loop ends at the first file that fails
BatchStep_stops_on_failure(b) ==
    Let([file \in {b.files[b.i + 1]} |->
    Let([r \in {process_pdf(file, FormDefault, b.bank_name, b.storage, b.host)} |->
        IF "raised" \in DOMAIN r
        THEN [b EXCEPT !.i = Len(b.files)]
        ELSE [b EXCEPT !.results = Append(@, [file_index |-> b.i, filename |-> file.filename,
                                               success |-> TRUE, data |-> r.content.data]),
                       !.i = @ + 1]])])

\* one iteration of "for i, file in enumerate(files)": the handler of
\* /process is called as a function, with supabase_url left at its default
BatchStep(b) ==
    Let([file \in {b.files[b.i + 1]} |->
    Let([r \in {process_pdf(file, FormDefault, b.bank_name, b.storage, b.host)} |->
    Let([entry \in {IF "raised" \in DOMAIN r
                    THEN [file_index |-> b.i, filename |-> file.filename,
                          success |-> FALSE, error |-> <<r.status_code, r.detail>>]
                    ELSE [file_index |-> b.i, filename |-> file.filename,
                          success |-> TRUE, data |-> r.content.data]} |->
        [b EXCEPT !.results = Append(@, entry), !.i = @ + 1]])])])

RECURSIVE SumCounts(_)
SumCounts(rs) ==
    IF rs = <<>> THEN 0 ELSE rs[1].data.transaction_count + SumCounts(Tail(rs))

\* "Calculate batch summary" and the response of process_batch_pdfs
BatchReturn(b) ==
    Let([successful_files \in {SelectSeq(b.results, LAMBDA r : r.success)} |->
        [b EXCEPT !.pc = "done",
                  !.response = JSONResponse(200,
                      [ success |-> TRUE,
                        message |-> "Batch processing completed",
                        data    |-> [ total_files        |-> Len(b.files),
                                      successful_files   |-> Len(successful_files),
                                      failed_files       |-> Len(b.files) - Len(successful_files),
                                      total_transactions |-> SumCounts(successful_files),
                                      results            |-> b.results ] ])]])

\* uploads: a CIMB statement with one transaction, a file that pdfplumber
\* cannot open, a file whose name does not end in .pdf, and a card statement
\* whose amount float() rejects
Uploads ==
    LET y2024 == <<"2","0","2","4">> IN
    { [filename |-> <<"a",".","p","d","f">>, year |-> y2024,
       doc |-> CallDoc(<<Fragment.CIMB, SampleLine.cimb_start, SampleLine.cimb_txn>>)],
      [filename |-> <<"b",".","P","D","F">>, year |-> y2024,
       doc |-> [opens |-> FALSE, pages |-> <<>>]],
      [filename |-> <<"c",".","t","x","t">>, year |-> y2024,
       doc |-> CallDoc(<<Fragment.CIMB, SampleLine.cimb_start, SampleLine.cimb_txn>>)],
      [filename |-> <<"d",".","p","d","f">>, year |-> y2024,
       doc |-> CallDoc(<<Fragment.Card_Statement>> \o CardPrelude
                        \o <<SampleLine.cc_txn, SampleLine.cc_bad_amount>>)] }

\* what the download of supabase_url gives
Downloads ==
    { [ok |-> FALSE],
      [ok |-> TRUE, year |-> <<"2","0","2","4">>,
       doc |-> CallDoc(<<SampleLine.al_start, SampleLine.al_credit>>)] }

\* without SUPABASE_URL and SUPABASE_KEY there is no client; with a client
\* the bank_accounts row names a bank and the upload succeeds or fails
Environments ==
    { [bank_name |-> None, storage |-> "none",
       host |-> [now |-> FirstYear, pandas |-> "raises"]],
      [bank_name |-> <<"C","I","M","B"," ","B","a","n","k">>, storage |-> "ok",
       host |-> [now |-> FirstYear, pandas |-> "parses"]],
      [bank_name |-> <<"A","l","l","i","a","n","c","e"," ","B","a","n","k">>, storage |-> "fails",
       host |-> [now |-> FirstYear + 1, pandas |-> "raises"]] }

\* the upload of the /process request that is in flight next to the request
\* followed
Rivals == {f \in Uploads : f.filename = <<"a",".","p","d","f">>}

\* the batches: every list of at most MaxFiles uploads, a list of ten and a
\* list of eleven
Batches ==
    LET u == CHOOSE f \in Uploads : f.filename = <<"a",".","p","d","f">>
        v == CHOOSE f \in Uploads : f.filename = <<"c",".","t","x","t">>
    IN  SeqsUpTo(Uploads, MaxFiles)
        \cup { [k \in 1..10 |-> IF k = 4 THEN v ELSE u], [k \in 1..11 |-> u] }

ServiceInit ==
    /\ DetIdle
    /\ ProcIdle("service")

\* a POST /process request arrives: its handler runs to the response, or to
\* the await of file.read(), where the event loop may run other handlers
Process ==
    /\ svc.pc = "idle"
    /\ \E file \in Uploads \cup {NoUpload}, supabase_url \in Downloads \cup {NoUpload},
          env \in Environments :
       \E req \in {[pc |-> "reading", kind |-> "process", file |-> file,
                     supabase_url |-> supabase_url, bank_name |-> env.bank_name,
                     storage |-> env.storage, host |-> env.host,
                     response |-> None, other |-> svc.other]} :
         svc' = IF AwaitsRead(file) THEN req
                ELSE [req EXCEPT !.pc = "done",
                                 !.response = process_pdf(file, supabase_url, env.bank_name,
                                                          env.storage, env.host)]
    /\ UNCHANGED <<detVars, docVars, procVars, self, calls>>

\* file.read() of the /process request returns: the handler runs to its end
ProcessRead ==
    /\ svc.pc = "reading" /\ svc.kind = "process"
    /\ svc' = [svc EXCEPT !.pc = "done",
                          !.response = process_pdf(svc.file, svc.supabase_url, svc.bank_name,
                                                   svc.storage, svc.host)]
    /\ UNCHANGED <<detVars, docVars, procVars, self, calls>>

\* a POST /process-batch request arrives
SubmitBatch ==
    /\ svc.pc = "idle"
    /\ \E files \in Batches, env \in Environments :
         svc' = BatchAccept([pc |-> "idle", kind |-> "batch", files |-> files,
                             bank_name |-> env.bank_name, storage |-> env.storage,
                             host |-> env.host,
                             i |-> 0, results |-> <<>>, response |-> None,
                             other |-> svc.other])
    /\ UNCHANGED <<detVars, docVars, procVars, self, calls>>

\* the loop of process_batch_pdfs calls the handler of /process for its next
\* file: the call ends the iteration, or it waits in file.read()
BatchFile ==
    /\ svc.pc = "loop" /\ svc.i < Len(svc.files)
    /\ svc' = IF AwaitsRead(svc.files[svc.i + 1]) THEN [svc EXCEPT !.pc = "reading"]
              ELSE BatchStep(svc)
    /\ UNCHANGED <<detVars, docVars, procVars, self, calls>>

\* file.read() of the file of the iteration returns: the iteration ends
BatchRead ==
    /\ svc.pc = "reading" /\ svc.kind = "batch"
    /\ svc' = [BatchStep(svc) EXCEPT !.pc = "loop"]
    /\ UNCHANGED <<detVars, docVars, procVars, self, calls>>

\* the loop is over: the batch response is returned
BatchDone ==
    /\ svc.pc = "loop" /\ svc.i = Len(svc.files)
    /\ svc' = BatchReturn(svc)
    /\ UNCHANGED <<detVars, docVars, procVars, self, calls>>

\* another POST /process request arrives with an upload, before, between or
\* after the steps of the request followed
OtherProcess ==
    /\ svc.other.pc = "none"
    /\ \E file \in Rivals, env \in {e \in Environments : e.storage = "none"} :
       \E req \in {[pc |-> "reading", file |-> file, bank_name |-> env.bank_name,
                     storage |-> env.storage, host |-> env.host, response |-> None]} :
         svc' = [svc EXCEPT !.other =
                    IF AwaitsRead(file) THEN req
                    ELSE [req EXCEPT !.pc = "done",
                                     !.response = process_pdf(file, NoUpload, env.bank_name,
                                                              env.storage, env.host)]]
    /\ UNCHANGED <<detVars, docVars, procVars, self, calls>>

\* file.read() of the other request returns: its handler runs to its end
OtherRead ==
    /\ svc.other.pc = "reading"
    /\ svc' = [svc EXCEPT !.other.pc = "done",
                          !.other.response = process_pdf(svc.other.file, NoUpload,
                                                         svc.other.bank_name, svc.other.storage,
                                                         svc.other.host)]
    /\ UNCHANGED <<detVars, docVars, procVars, self, calls>>

ServiceNext ==
    \/ Process
    \/ ProcessRead
    \/ SubmitBatch
    \/ BatchFile
    \/ BatchRead
    \/ BatchDone
    \/ OtherProcess
    \/ OtherRead

SpecService == ServiceInit /\ [][ServiceNext]_vars
(* ------------------------------------------------------------------ *)
(* Claims about the detector                                           *)
(* ------------------------------------------------------------------ *)

\* C1: detect_bank_type returns one of the four bank keys, and two texts
\* with the same lower-cased form get the same value.
C1_DetectorFourValuesCaseBlind ==
    dt_pc = "returned" =>
        /\ dt_out \in supported_banks
        /\ dt_alt_out \in supported_banks
        /\ (Lower(dt_text) = Lower(dt_alt) => dt_out = dt_alt_out)

\* a text that spells MAYBANK with the Kelvin sign and another text with
\* the same lower-cased form were both classified as maybank
C1_Witness ==
    /\ dt_pc = "returned"
    /\ Contains(dt_text, Fragment.Maybank_Kelvin)
    /\ dt_text # dt_alt
    /\ Lower(dt_text) = Lower(dt_alt)
    /\ dt_out = "maybank" /\ dt_alt_out = "maybank"

\* C2: a text with a strong credit-card indicator and a bank-name keyword
\* is classified credit_card.
C2_IndicatorBeatsBankName ==
    (/\ dt_pc = "returned"
     /\ HasCreditCardIndicator(Lower(dt_text))
     /\ \/ HasMaybankKeyword(Lower(dt_text))
        \/ HasCimbKeyword(Lower(dt_text))
        \/ HasAllianceKeyword(Lower(dt_text)))
    => dt_out = "credit_card"

\* "Maybank" together with "TAX INVOICE" and with the indicator PENYATA
\* AKAUN KAD KREDIT, spelled with the Kelvin sign, was classified
C2_Witness ==
    /\ dt_pc = "returned"
    /\ Contains(dt_text, Fragment.Maybank)
    /\ Contains(dt_text, Fragment.TAX_INVOICE)
    /\ Contains(dt_text, Fragment.Penyata_Kelvin)
    /\ dt_out = "credit_card"

\* C3: without a strong indicator the rules are first-match-wins:
\* maybank, cimb, alliance keywords, then a generic card pair, then maybank.
C3_FirstMatchWins ==
    (dt_pc = "returned" /\ ~HasCreditCardIndicator(Lower(dt_text))) =>
        LET t == Lower(dt_text) IN
        /\ HasMaybankKeyword(t) => dt_out = "maybank"
        /\ (~HasMaybankKeyword(t) /\ HasCimbKeyword(t)) => dt_out = "cimb"
        /\ (~HasMaybankKeyword(t) /\ ~HasCimbKeyword(t) /\ HasAllianceKeyword(t))
              => dt_out = "alliance"
        /\ (~HasMaybankKeyword(t) /\ ~HasCimbKeyword(t) /\ ~HasAllianceKeyword(t)
              /\ HasGenericCardPair(t)) => dt_out = "credit_card"
        /\ (~HasMaybankKeyword(t) /\ ~HasCimbKeyword(t) /\ ~HasAllianceKeyword(t)
              /\ ~HasGenericCardPair(t)) => dt_out = "maybank"

\* a text that spells MAYBANK with the Kelvin sign and also holds a generic
\* visa + statement pair was classified maybank
C3_Witness ==
    /\ dt_pc = "returned"
    /\ ~HasCreditCardIndicator(Lower(dt_text))
    /\ Contains(dt_text, Fragment.Maybank_Kelvin)
    /\ ~Contains(dt_text, Fragment.Maybank)
    /\ HasMaybankKeyword(Lower(dt_text))
    /\ HasGenericCardPair(Lower(dt_text))
    /\ dt_out = "maybank"
(* ------------------------------------------------------------------ *)
(* Claims about process_pdf                                            *)
(* ------------------------------------------------------------------ *)

\* C4: a bank-type hint bypasses detection: the bank used for parsing, and
\* reported by a successful result, is the hint if it is a supported key and
\* maybank otherwise, whatever the text holds; a file that opens never
\* fails because its hint is unsupported.
C4_HintBypassesDetection ==
    (pc # "start" /\ opens /\ hint \notin {"None", ""}) =>
        /\ hint \in supported_banks => bank = hint
        /\ hint \notin supported_banks => bank = "maybank"
        /\ (pc = "done" /\ result.success) => result.bank_type = bank
        /\ (pc = "done" /\ hint \notin supported_banks) => result.success

\* the unsupported hint "hsbc" on a document whose text says CIMB: the
\* Maybank parser was started
C4_Witness ==
    /\ pc = "scan"
    /\ hint = "hsbc"
    /\ ahead = <<Fragment.CIMB>>
    /\ bank = "maybank"

\* C5: no exception escapes process_pdf: a failure of the open, of the
\* parser or of the summary ends the run with a failure result that carries
\* an error string and an empty transactions list.
C5_FailuresAreReturned ==
    /\ pst.raised # "None" =>
          (/\ pc = "done" /\ ~result.success
           /\ "error" \in DOMAIN result /\ result.error = pst.raised)
    /\ (pc # "start" /\ ~opens) => (pc = "done" /\ ~result.success)
    /\ (pc = "done" /\ opens /\ pst.raised = "None") =>
          \E pandas \in PandasOutcomes :
              /\ result = SuccessResult(bank, parsed, pandas)
              /\ ToDatetimeRaises(parsed, pandas) => ~result.success
    /\ (pc = "done" /\ ~result.success) =>
          /\ "error" \in DOMAIN result
          /\ result.error \in {"Exception", "IndexError", "TypeError",
                               "AttributeError", "ValueError"}
          /\ result.transactions = <<>>

\* the CIMB parser had collected a record when a page without text raised
\* AttributeError: the result carries the error and no record
C5_Witness ==
    /\ pc = "done"
    /\ bank = "cimb"
    /\ pst.raised = "AttributeError"
    /\ Len(pst.transactions) > 0
    /\ result.transactions = <<>>

\* C6: for each of the four banks, a document without a section-start marker
\* (pages without text included) gives a successful result with no
\* transactions, an empty CSV and an empty summary.
C6_NoMarkerSucceedsEmpty ==
    (pc = "done" /\ opens /\ ~seen_start) =>
        /\ result.success
        /\ result.transactions = <<>>
        /\ result.csv_content = <<>>
        /\ result.summary = <<>>

\* C7: every record a parser returns has a date that is a day of the
\* calendar and an amount; a start line with an impossible day/month gives
\* no record.
C7_EmittedRecordsHaveValidDates ==
    pc \in {"parsed", "done"} =>
        \A i \in 1..Len(parsed) :
            /\ IsIsoCalendarDate(parsed[i].date)
            /\ "amount" \in DOMAIN parsed[i]

\* C8: for maybank, cimb and alliance every returned record is a
\* debit with amount <= 0 or a credit with amount >= 0.
C8_SignsAgree ==
    (pc \in {"parsed", "done"} /\ bank \in {"maybank", "cimb", "alliance"}) =>
        \A i \in 1..Len(parsed) :
            /\ parsed[i].transaction_type = "debit" => parsed[i].amount <= 0
            /\ parsed[i].transaction_type = "credit" => parsed[i].amount >= 0

\* C9: in a successful result every record carries the bank tag the result
\* reports, one of the four supported keys, and the bank is not chosen again
\* once parsing has begun.
C9_OneBankTag ==
    /\ [](pc = "done" /\ result.success =>
            /\ result.bank_type = bank
            /\ bank \in supported_banks
            /\ \A i \in 1..Len(result.transactions) :
                  result.transactions[i].bank = result.bank_type)
    /\ [][pc # "start" => bank' = bank]_vars

\* a detected Alliance statement gave a successful result with two records
C9_Witness ==
    /\ pc = "done"
    /\ hint = "None"
    /\ result.success
    /\ result.bank_type = "alliance"
    /\ Len(result.transactions) >= 2

\* C10: a transaction-start line handled after a section-end marker
\* (CLOSING BALANCE / ENDING BALANCE / BAKI AKHIR) and before the next
\* section-start marker neither creates nor changes a record, on the page of
\* the marker or on a later one: the list the parser would return if the
\* document ended with the line is the list it would have returned before it.
C10_NoRecordAfterSectionEnd ==
    [][(/\ pc = "scan" /\ in_page /\ ahead # <<>>
        /\ ahead' = Tail(ahead)
        /\ after_end
        /\ IsStartLine(bank, ahead[1]))
       => Finalize(bank, EndPage(bank, pst')) = Finalize(bank, EndPage(bank, pst))]_vars

\* the record the parser is building has not met its amount line yet
CurrentIsOpen(st) ==
    /\ st.current_transaction # 0
    /\ st.heap[st.current_transaction].is_parsing

\* C11: in the CIMB and Alliance parsers a transaction-start line read while
\* a record is still open pushes that record to the output list, and no line
\* handled afterwards changes a record that is already in the output list.
C11_StartLineClosesPrevious ==
    [][(/\ pc = "scan" /\ in_page /\ ahead # <<>>
        /\ ahead' = Tail(ahead)
        /\ bank \in {"cimb", "alliance"}
        /\ ~pst.stopped /\ pst.in_section
        /\ ~IsSectionStart(bank, ahead[1]) /\ ~IsSectionEnd(bank, ahead[1]))
       => /\ (IsStartLine(bank, ahead[1]) /\ CurrentIsOpen(pst))
                => \E k \in 1..Len(pst'.transactions) :
                      pst'.transactions[k] = pst.current_transaction
          /\ \A k \in 1..Len(pst.transactions) :
                pst'.heap[pst.transactions[k]] = pst.heap[pst.transactions[k]]]_vars

\* the dict is still marked as being parsed and no amounts were stored in it:
\* the test by which the finalizers remove a record
NoAmountLine(d) == d.is_parsing /\ ~Get(d, "has_amounts", FALSE)

\* C12, amended: a record for which no amount line was found is appended to
\* the list at the end of its page but never returned: the CIMB and Alliance
\* parsers return, in order, exactly the appended records that are not in
\* that state, whatever the description of the others.
C12_OpenRecordsAreDropped ==
    (pc = "parsed" /\ bank \in {"cimb", "alliance"}) =>
        Let([found \in {SelectSeq(pst.transactions,
                            LAMBDA r : ~NoAmountLine(pst.heap[r]))} |->
            /\ Len(parsed) = Len(found)
            /\ \A j \in 1..Len(found) :
                  /\ parsed[j].date = pst.heap[found[j]].date
                  /\ parsed[j].description = Strip(pst.heap[found[j]].description)
                  /\ parsed[j].balance = pst.heap[found[j]].balance])

\* the Alliance parser returned one record and dropped another that had a
\* description but no amounts
C12_Witness ==
    /\ pc = "parsed" /\ bank = "alliance"
    /\ Len(parsed) = 1
    /\ \E k \in 1..Len(pst.transactions) :
          /\ NoAmountLine(pst.heap[pst.transactions[k]])
          /\ pst.heap[pst.transactions[k]].description # <<>>

\* C12: a record still open at the end of the document is in the returned
\* list if it has a description or a non-zero amount, and is left out only
\* if it has neither (CIMB and Alliance).
C12_OpenRecordIsFlushed ==
    (pc = "parsed" /\ bank \in {"cimb", "alliance"}) =>
        \A k \in 1..Len(pst.transactions) :
            Let([d \in {pst.heap[pst.transactions[k]]} |->
                NoAmountLine(d) =>
                    ((d.description # <<>> \/ d.amount # 0)
                       <=> \E j \in 1..Len(parsed) :
                              /\ parsed[j].date = d.date
                              /\ parsed[j].description = Strip(d.description))])

\* the line matches the transaction pattern of the parser of bank, and the
\* conversion of its date (strptime) or of its amount (float) raises
ConversionFails(b, raw, year) ==
    Let([line \in {Strip(raw)} |->
    CASE b = "maybank" ->
           Let([m \in {MaybankMatch(line)} |->
               m.ok /\ ~DmyValid(Slice(m.date_str, 1, 2), Slice(m.date_str, 4, 5),
                                 Slice(m.date_str, 7, 10))])
      [] b = "cimb" ->
           Let([m \in {CimbDateMatch(line)} |->
               m.ok /\ ~DmyValid(Slice(m.date_str, 1, 2), Slice(m.date_str, 4, 5),
                                 Slice(m.date_str, 7, 10))])
      [] b = "alliance" ->
           Let([m \in {AllianceDateMatch(line)} |-> m.ok /\ ~AllianceDate(m).ok])
      [] OTHER ->
           Let([m \in {CreditCardMatch(line)} |->
               /\ m.ok
               /\ m.amount_str # <<>>
               /\ \/ ~FloatOk(m.amount_str)
                  \/ ~DmyValid(Slice(m.posting_date, 1, 2),
                               Slice(m.posting_date, 4, 5), year)
                  \/ ~DmyValid(Slice(m.transaction_date, 1, 2),
                               Slice(m.transaction_date, 4, 5), year)])])

\* C13: a line that matches the transaction pattern but whose date or amount
\* cannot be converted starts no record and raises nothing: the parser goes
\* on with the next line.
C13_BadLineIsDiscarded ==
    [][(/\ pc = "scan" /\ in_page /\ ahead # <<>>
        /\ ahead' = Tail(ahead)
        /\ pst.in_section /\ ~pst.stopped
        /\ bank = "credit_card" => pst.current_card # NoCard
        /\ bank = "maybank" => pst.continuation_line = <<>>
        /\ ConversionFails(bank, ahead[1], ctx.year))
       => /\ pst'.raised = "None"
          /\ pc' = "scan"
          /\ Len(pst'.heap) = Len(pst.heap)]_vars

\* C14: in the Maybank parser a line read inside the section that holds a
\* date, two decimal amounts and a description appends exactly one record
\* with that date, the first decimal as amount, the second as balance, the
\* trailing text without the blanks around it as description and the bank
\* maybank, a debit whenever the amount is positive; marker lines, lines
\* outside the section and lines without these four parts append nothing;
\* the line 01/01/2024 100.00 500.00 SALARY gives the record
\* (2024-01-01, 100.00, 500.00, debit, maybank).
C14_MaybankLineGivesOneRecord ==
    [][(/\ pc = "scan" /\ in_page /\ ahead # <<>>
        /\ ahead' = Tail(ahead)
        /\ bank = "maybank")
       => Let([m \in {MaybankMatch(Strip(ahead[1]))} |->
          IF \/ IsSectionStart(bank, ahead[1]) \/ IsSectionEnd(bank, ahead[1])
             \/ ~pst.in_section
             \/ ~m.ok
          THEN pst'.heap = pst.heap /\ pst'.transactions = pst.transactions
          ELSE DmyValid(Slice(m.date_str, 1, 2), Slice(m.date_str, 4, 5),
                        Slice(m.date_str, 7, 10))
               => /\ Len(pst'.heap) = Len(pst.heap) + 1
                  /\ pst'.transactions = Append(pst.transactions, Len(pst'.heap))
                  /\ \A r \in 1..Len(pst.heap) : pst'.heap[r] = pst.heap[r]
                  /\ Let([d \in {pst'.heap[Len(pst'.heap)]} |->
                       /\ DOMAIN d = {"date", "description", "amount", "balance",
                                      "transaction_type", "bank"}
                       /\ d.date = ZeroPad(DigitsToInt(Slice(m.date_str, 7, 10)), 4) \o <<"-">>
                                     \o ZeroPad(DigitsToInt(Slice(m.date_str, 4, 5)), 2) \o <<"-">>
                                     \o ZeroPad(DigitsToInt(Slice(m.date_str, 1, 2)), 2)
                       /\ d.amount = AmountCents(m.amount_str)
                       /\ d.balance = AmountCents(m.balance_str)
                       /\ d.description = Strip(m.rest)
                       /\ d.description # <<>>
                       /\ \A c \in Whitespace :
                              d.description[1] # c /\ d.description[Len(d.description)] # c
                       /\ d.bank = "maybank"
                       /\ d.amount > 0 => d.transaction_type = "debit"
                       /\ ahead[1] = SampleLine.mb_txn =>
                             d = [ date |-> <<"2","0","2","4","-","0","1","-","0","1">>,
                                   description |-> <<"S","A","L","A","R","Y">>,
                                   amount |-> 10000, balance |-> 50000,
                                   transaction_type |-> "debit",
                                   bank |-> "maybank" ]])])]_vars

\* the parser returned after the four lines URUSNIAGA AKAUN,
\* 01/01/2024 100.00 500.00 SALARY, the line of 11/01/2024 whose digits are
\* not all ASCII and whose description ZAKAT is followed by nothing, and
\* ENDING BALANCE, with the record of the first and a record of the second
C14_Witness ==
    /\ pc = "parsed" /\ bank = "maybank" /\ hint = "maybank"
    /\ pageno = 1 /\ nlines = 4 /\ seen_start /\ after_end
    /\ Len(parsed) = 2
    /\ parsed[1].date = <<"2","0","2","4","-","0","1","-","0","1">>
    /\ parsed[1].amount = 10000 /\ parsed[1].balance = 50000
    /\ parsed[1].transaction_type = "debit" /\ parsed[1].bank = "maybank"
    /\ parsed[2].date = <<"2","0","2","4","-","0","1","-","1","1">>
    /\ parsed[2].amount = 800 /\ parsed[2].balance = 900
    /\ parsed[2].description = <<"Z","A","K","A","T">>

\* the magnitude of an amount in cents
Abs(n) == IF n < 0 THEN -n ELSE n

\* C15: in the list the CIMB parser returns, every record but the first is
\* a credit with amount >= 0 if its balance is greater than the balance of
\* the record before it, and a debit with amount <= 0 otherwise; the size of
\* the amount is the one read from the statement line.
C15_CimbSignFollowsBalance ==
    (pc = "parsed" /\ bank = "cimb") =>
        Let([refs \in {SelectSeq(pst.transactions,
                           LAMBDA r : ~pst.heap[r].is_parsing)} |->
            \A i \in 2..Len(parsed) :
                /\ IF parsed[i].balance > parsed[i - 1].balance
                   THEN parsed[i].transaction_type = "credit" /\ parsed[i].amount >= 0
                   ELSE parsed[i].transaction_type = "debit" /\ parsed[i].amount <= 0
                /\ Abs(parsed[i].amount) = Abs(pst.heap[refs[i]].amount)])

\* C16: the first record of the list the CIMB parser returns is a credit
\* with its amount unchanged whenever the amount read from the statement is
\* positive, and a debit with amount <= 0 only when that amount is zero,
\* whatever the other records are.
C16_CimbFirstRecordByAmount ==
    (pc = "parsed" /\ bank = "cimb" /\ Len(parsed) >= 1) =>
        Let([refs \in {SelectSeq(pst.transactions,
                           LAMBDA r : ~pst.heap[r].is_parsing)} |->
        Let([extracted \in {pst.heap[refs[1]].amount} |->
            /\ extracted > 0 =>
                  /\ parsed[1].transaction_type = "credit"
                  /\ parsed[1].amount = extracted
            /\ parsed[1].transaction_type = "debit" =>
                  /\ extracted = 0
                  /\ parsed[1].amount <= 0])])

\* C17: in the Alliance parser, inside the section, a record whose amounts
\* come from a line that ends in two decimals and the marker CR (the
\* transaction-start line after its date, or a continuation line of an open
\* record without amounts) is a credit with the first decimal as amount and
\* the second as balance; no later line changes these, and the record is in
\* the returned list with them.
C17_AllianceCreditMarker ==
    /\ [][(/\ pc = "scan" /\ in_page /\ ahead # <<>>
           /\ ahead' = Tail(ahead)
           /\ bank = "alliance")
          => Let([line \in {Strip(ahead[1])} |->
             Let([dm \in {AllianceDateMatch(line)} |->
             /\ \A r \in 1..Len(pst.heap) :
                   ~NoAmountLine(pst.heap[r]) =>
                      /\ pst'.heap[r].amount = pst.heap[r].amount
                      /\ pst'.heap[r].balance = pst.heap[r].balance
                      /\ pst'.heap[r].transaction_type = pst.heap[r].transaction_type
             /\ (/\ pst.in_section
                 /\ ~IsSectionStart(bank, line) /\ ~IsSectionEnd(bank, line)
                 /\ ~AllianceBilingualSkip(line))
                => IF dm.ok
                   THEN Let([a \in {DescAmountBalanceMarker(Strip(dm.rest))} |->
                        (AllianceDate(dm).ok /\ a.ok /\ a.cr_dr = AllianceText.CR)
                        => /\ pst'.current_transaction = Len(pst.heap) + 1
                           /\ Let([d \in {pst'.heap[Len(pst.heap) + 1]} |->
                                /\ d.transaction_type = "credit"
                                /\ d.amount = AmountCents(a.g1)
                                /\ d.balance = AmountCents(a.g2)
                                /\ ~NoAmountLine(d)])])
                   ELSE Let([b \in {AmountBalanceMarker(line)} |->
                        (/\ CurrentIsOpen(pst)
                         /\ NoAmountLine(pst.heap[pst.current_transaction])
                         /\ b.ok /\ b.cr_dr = AllianceText.CR)
                        => Let([d \in {pst'.heap[pst.current_transaction]} |->
                             /\ d.transaction_type = "credit"
                             /\ d.amount = AmountCents(b.g1)
                             /\ d.balance = AmountCents(b.g2)
                             /\ ~NoAmountLine(d)])])])])]_vars
    /\ []((pc = "parsed" /\ bank = "alliance") =>
            \A r \in 1..Len(pst.heap) :
                (~NoAmountLine(pst.heap[r]) /\ pst.heap[r].transaction_type = "credit")
                => \E j \in 1..Len(parsed) :
                      /\ parsed[j].date = pst.heap[r].date
                      /\ parsed[j].transaction_type = "credit"
                      /\ parsed[j].amount = pst.heap[r].amount
                      /\ parsed[j].balance = pst.heap[r].balance)

\* the Alliance parser returned two credits: one whose amounts stood on its
\* start line 10/01/2024 TOLL 4.00 486.00 CR, written with no-break spaces
\* and a carriage return at its end, one whose amounts came on a
\* continuation line (8.00 17.00 CR)
C17_Witness ==
    /\ pc = "parsed" /\ bank = "alliance"
    /\ \E i, j \in 1..Len(parsed) :
          /\ parsed[i].transaction_type = "credit"
          /\ parsed[i].description = <<"T","O","L","L">>
          /\ parsed[i].amount = 400 /\ parsed[i].balance = 48600
          /\ parsed[j].transaction_type = "credit"
          /\ parsed[j].amount = 800 /\ parsed[j].balance = 1700

\* C18: a card statement whose page sets the card and opens the section
\* (cardholder name, card line, table header) and goes on with a
\* transaction-start line without an amount, a bare amount line and a
\* foreign-currency note line is parsed into exactly one record, whose
\* amount is that of the bare amount line and whose notes contain the note
\* line: the amount line and the note line give no record of their own.
C18_AmountAndNoteOnNextLines ==
    \A c \in 1..Len(calls) :
        Let([a \in {calls[c].args} |->
        Let([lines \in {IF a.doc.opens THEN Split(a.doc.pages[1]) ELSE <<>>} |->
            (/\ a.hint = "credit_card"
             /\ Len(lines) = 6
             /\ SubSeq(lines, 1, 3) = CardPrelude
             /\ CreditCardMatch(Strip(lines[4])).ok
             /\ CreditCardMatch(Strip(lines[4])).amount_str = <<>>
             /\ AmountTailAt(Strip(lines[5]), 1).ok
             /\ ~CreditCardMatch(Strip(lines[6])).ok
             /\ ContainsAny(Upper(Strip(lines[6])),
                            << CreditCardText.TRANSACTED_AMOUNT, CreditCardText.USD, CreditCardText.EUR,
                               CreditCardText.SGD, CreditCardText.EXCHANGE_RATE >>))
            => /\ calls[c].result.success
               /\ Len(calls[c].result.transactions) = 1
               /\ calls[c].result.transactions[1].amount
                      = FloatCents(AmountTailAt(Strip(lines[5]), 1).amount_str)
               /\ Contains(calls[c].result.transactions[1].notes, Strip(lines[6]))])])

\* C19: whenever process_pdf returns a summary for a non-empty list of
\* records, each typed credit or debit, credit_count + debit_count =
\* total_transactions = the number of records, total_credits is the sum of
\* the amounts of the credit records, total_debits the sum of the amounts of
\* the debit records, and net_amount = total_credits - total_debits, all in
\* cents.
C19_SummaryAddsUp ==
    (/\ pc = "done" /\ result.success
     /\ result.transactions # <<>>
     /\ \A i \in 1..Len(result.transactions) :
            result.transactions[i].transaction_type \in {"credit", "debit"})
    => LET t == result.transactions
           s == result.summary
           of(i, type) == IF i <= Len(t) /\ t[i].transaction_type = type
                          THEN t[i].amount ELSE 0
           sum(type) == of(1, type) + of(2, type) + of(3, type) + of(4, type)
                          + of(5, type) + of(6, type) + of(7, type) + of(8, type)
       IN  /\ Len(t) <= 8
           /\ s.total_transactions = Len(t)
           /\ s.credit_count + s.debit_count = s.total_transactions
           /\ s.credit_count = Cardinality({i \in 1..Len(t) : t[i].transaction_type = "credit"})
           /\ s.total_credits = sum("credit")
           /\ s.total_debits = sum("debit")
           /\ s.net_amount = s.total_credits - s.total_debits

\* process_pdf returned the summary of an Alliance statement with the credit
\* 01/01/2024 SALARY 100.00 and the debit 02/01/2024 SHOP 5.00
C19_Witness ==
    /\ pc = "done" /\ result.success /\ bank = "alliance"
    /\ Len(result.transactions) = 2
    /\ result.summary.credit_count = 1 /\ result.summary.debit_count = 1
    /\ result.summary.total_credits = 10000
    /\ result.summary.total_debits = -500
    /\ result.summary.net_amount = 10500

\* C20: for a non-empty list of records the first row of the CSV holds the
\* columns of the bank's fixed list that occur as a key of some record, in
\* the order of that list: (date, description, amount, balance,
\* transaction_type) for maybank, cimb and alliance, so that bank, cheque_no,
\* is_parsing and has_amounts are never a column, and (posting_date, date,
\* description, amount, transaction_type, card_type, card_number, notes,
\* statement_date) for credit_card; the rows after it are one per record, in
\* the order of the records, each holding the record's values of the columns.
C20_CsvColumnsAndRows ==
    (pc = "done" /\ result.success /\ result.transactions # <<>>)
    => LET t == result.transactions
           csv == result.csv_content
           fixed == IF result.bank_type = "credit_card"
                    THEN << "posting_date", "date", "description", "amount",
                            "transaction_type", "card_type", "card_number", "notes",
                            "statement_date" >>
                    ELSE << "date", "description", "amount", "balance", "transaction_type" >>
           present(c) == \E i \in 1..Len(t) : c \in DOMAIN t[i]
       IN  /\ Len(csv) = Len(t) + 1
           /\ \A j \in 1..Len(csv[1]) :
                  /\ \E p \in 1..Len(fixed) : fixed[p] = csv[1][j]
                  /\ present(csv[1][j])
                  /\ \A k \in 1..(j - 1) : IndexIn(csv[1][k], fixed) < IndexIn(csv[1][j], fixed)
           /\ \A p \in 1..Len(fixed) :
                  present(fixed[p]) => \E j \in 1..Len(csv[1]) : csv[1][j] = fixed[p]
           /\ result.bank_type # "credit_card"
                  => \A j \in 1..Len(csv[1]) :
                         csv[1][j] \notin {"bank", "cheque_no", "is_parsing", "has_amounts"}
           /\ \A i \in 1..Len(t) :
                  /\ Len(csv[i + 1]) = Len(csv[1])
                  /\ \A j \in 1..Len(csv[1]) :
                         csv[1][j] \in DOMAIN t[i] => csv[i + 1][j] = t[i][csv[1][j]]

\* process_pdf returned the CSV of a CIMB statement with two records that
\* carry cheque_no and bank: five columns, two data rows
C20_Witness ==
    /\ pc = "done" /\ result.success /\ result.bank_type = "cimb"
    /\ Len(result.transactions) = 2
    /\ \A i \in 1..2 : {"cheque_no", "bank"} \subseteq DOMAIN result.transactions[i]
    /\ result.transactions[1].description # result.transactions[2].description
    /\ Len(result.csv_content) = 3
    /\ result.csv_content[1] = << "date", "description", "amount", "balance", "transaction_type" >>
    /\ result.csv_content[3][2] = result.transactions[2].description

\* C21 as stated: calls on one parser object with the same page texts, bank
\* hint and file name return the same dict (bank_type, transactions in the
\* same order, CSV, summary, error), whatever was parsed in between, and no
\* call changes the object.
C21_CallsAreIndependent ==
    /\ self = NewParser
    /\ \A i, j \in 1..Len(calls) :
           calls[i].args = calls[j].args => calls[i].result = calls[j].result

\* C21: calls on one parser object with the same page texts, bank hint and
\* file name, made in the same year where the call reads the clock (a card
\* statement whose file name holds no year), return the same dict
\* (bank_type, transactions in the same order, CSV, summary, error),
\* whatever was parsed in between, and no call changes the object.
C21_CallsAgreeInOneYear ==
    /\ self = NewParser
    /\ \A i, j \in 1..Len(calls) :
           (calls[i].args = calls[j].args /\ calls[i].now = calls[j].now)
           => calls[i].result = calls[j].result

\* a card statement whose file name holds no year gave one record dated in
\* the year of the clock, a card statement without a card line parsed next
\* gave none, and the first statement parsed again in the same year gave
\* what it gave before
C21_Witness ==
    /\ Len(calls) = 3
    /\ calls[1].args = calls[3].args
    /\ calls[1].args.hint = "credit_card" /\ calls[1].args.year = None
    /\ calls[1].now = FirstYear /\ calls[3].now = FirstYear
    /\ calls[1].result.success /\ Len(calls[1].result.transactions) = 1
    /\ calls[1].result.transactions[1].posting_date = <<"2","0","2","4","-","0","2","-","0","1">>
    /\ calls[2].args.hint = "credit_card" /\ calls[2].args.doc # calls[1].args.doc
    /\ calls[2].result.success /\ calls[2].result.transactions = <<>>
    /\ calls[3].result = calls[1].result

\* C22: in the Maybank parser the pending fragment is empty or the text of
\* one line of the document: it never holds the text of two source lines.
C22_FragmentIsOneLine ==
    (bank = "maybank" /\ pc = "scan")
    => \/ pst.continuation_line = <<>>
       \/ \E l \in FeedLines("maybank") \cup FrontLines \cup {CardPrelude[i] : i \in 1..Len(CardPrelude)} :
              pst.continuation_line = Strip(l)

\* C23: in the CIMB parser the in-progress flag of a record is cleared only
\* by the handling of a line that ends in two decimal amounts, and never set
\* again; the parser returns as many records as were appended with the flag
\* cleared, so a record appended with the flag still set is dropped, and no
\* returned record has an is_parsing field.
C23_CimbReturnsCompletedRecords ==
    /\ [][bank = "cimb" =>
            \A r \in 1..Len(pst'.heap) :
                IF r <= Len(pst.heap) /\ ~pst.heap[r].is_parsing
                THEN ~pst'.heap[r].is_parsing
                ELSE ~pst'.heap[r].is_parsing =>
                        /\ pc = "scan" /\ in_page /\ ahead # <<>> /\ ahead' = Tail(ahead)
                        /\ TwoAmountsTail(Strip(ahead[1])).ok]_vars
    /\ []((pc = "parsed" /\ bank = "cimb") =>
            /\ \A j \in 1..Len(parsed) : "is_parsing" \notin DOMAIN parsed[j]
            /\ Len(parsed) = Cardinality({k \in 1..Len(pst.transactions) :
                                             ~pst.heap[pst.transactions[k]].is_parsing})
            /\ \A j \in 1..Len(parsed) :
                   \E k \in 1..Len(pst.transactions) :
                       /\ ~pst.heap[pst.transactions[k]].is_parsing
                       /\ pst.heap[pst.transactions[k]].balance = parsed[j].balance
                       /\ pst.heap[pst.transactions[k]].date = parsed[j].date)

\* the CIMB parser returned the record of 02/01/2024 SHOP completed by the
\* line RUNCIT 7.00 488.00, whose parts are separated by a no-break space
\* and a tab and followed by a form feed, and dropped a record that was
\* appended while still in progress
C23_Witness ==
    /\ pc = "parsed" /\ bank = "cimb"
    /\ Len(parsed) = 1
    /\ parsed[1].description = <<"S","H","O","P"," ","R","U","N","C","I","T">>
    /\ parsed[1].balance = 48800
    /\ \E k \in 1..Len(pst.transactions) : pst.heap[pst.transactions[k]].is_parsing

\* C24: in the Alliance parser, whenever one of the four amount patterns
\* matches the text after the date of a transaction-start line, the record
\* opened by that line is flagged has_amounts and is still open.
C24_AmountsKeepRecordOpen ==
    [][(/\ bank = "alliance" /\ pc = "scan" /\ in_page
        /\ ahead # <<>> /\ ahead' = Tail(ahead)
        /\ Len(pst'.heap) = Len(pst.heap) + 1)
       => LET rest_of_line == Strip(AllianceDateMatch(Strip(ahead[1])).rest)
              tr == pst'.heap[Len(pst'.heap)]
          IN  (/\ rest_of_line # <<>>
               /\ \/ DescAmountBalanceMarker(rest_of_line).ok
                  \/ ThreeAmountsTail(rest_of_line).ok
                  \/ TwoAmountsTail(rest_of_line).ok
                  \/ SingleAmountTail(rest_of_line).ok)
              => (Get(tr, "has_amounts", FALSE) /\ tr.is_parsing)]_vars

\* C25: in the Alliance parser no step changes anything but the description
\* of a record flagged has_amounts, and a line handled as a continuation of
\* such a record appends the stripped line to the description after one
\* blank, also when the line ends in amounts or holds CR or DR.
C25_ContinuationOnlyExtendsDescription ==
    [][bank = "alliance" =>
         \A r \in 1..Len(pst.heap) :
             Get(pst.heap[r], "has_amounts", FALSE) =>
                 /\ r <= Len(pst'.heap)
                 /\ DOMAIN pst'.heap[r] = DOMAIN pst.heap[r]
                 /\ \A k \in DOMAIN pst.heap[r] \ {"description"} :
                        pst'.heap[r][k] = pst.heap[r][k]
                 /\ IF /\ pc = "scan" /\ in_page /\ ahead # <<>> /\ ahead' = Tail(ahead)
                       /\ pst.in_section /\ pst.current_transaction = r
                       /\ Strip(ahead[1]) # <<>>
                       /\ ~AllianceHeaderFound(Strip(ahead[1]))
                       /\ ~AllianceBilingualSkip(Strip(ahead[1]))
                       /\ ~AllianceSectionEnd(Strip(ahead[1]))
                       /\ ~AllianceDateMatch(Strip(ahead[1])).ok
                    THEN pst'.heap[r].description =
                             IF pst.heap[r].description = <<>> THEN Strip(ahead[1])
                             ELSE pst.heap[r].description \o <<" ">> \o Strip(ahead[1])
                    ELSE pst'.heap[r].description = pst.heap[r].description]_vars

\* the open record of 01/01/2024 SALARY 100.00 500.00 CR took the line
\* 0.00 5.00 485.00, read between a no-break space and a carriage return,
\* as text: amount, balance and type are those of its first line
C25_Witness ==
    /\ bank = "alliance" /\ pc = "scan" /\ pst.current_transaction # 0
    /\ LET tr == pst.heap[pst.current_transaction] IN
       /\ Get(tr, "has_amounts", FALSE) /\ tr.is_parsing
       /\ tr.description = <<"S","A","L","A","R","Y"," ","0",".","0","0"," ","5",".","0","0"," ","4","8","5",".","0","0">>
       /\ tr.amount = 10000 /\ tr.balance = 50000 /\ tr.transaction_type = "credit"

\* C26 as stated: whenever a line supplies the amounts of an Alliance record,
\* on the start line or on a continuation line, the record is a credit if
\* and only if that line contains the letters CR in any case.
C26_CreditIffLineHasCR ==
    [][(bank = "alliance" /\ pc = "scan" /\ in_page /\ ahead # <<>> /\ ahead' = Tail(ahead))
       => LET line == Strip(ahead[1])
              cur  == pst.current_transaction
              rest_of_line == Strip(AllianceDateMatch(line).rest)
              by_cr(l) == IF Contains(Upper(l), <<"C", "R">>) THEN "credit" ELSE "debit"
          IN  /\ (/\ Len(pst'.heap) = Len(pst.heap) + 1
                  /\ rest_of_line # <<>>
                  /\ \/ DescAmountBalanceMarker(rest_of_line).ok
                     \/ ThreeAmountsTail(rest_of_line).ok
                     \/ TwoAmountsTail(rest_of_line).ok
                     \/ SingleAmountTail(rest_of_line).ok)
                 => pst'.heap[Len(pst'.heap)].transaction_type = by_cr(rest_of_line)
              /\ (/\ Len(pst'.heap) = Len(pst.heap)
                  /\ cur # 0 /\ pst'.heap[cur] # pst.heap[cur]
                  /\ ~Get(pst.heap[cur], "has_amounts", FALSE)
                  /\ \/ AmountBalanceMarker(line).ok
                     \/ ThreeAmountsTail(line).ok
                     \/ TwoAmountsTail(line).ok
                     \/ SingleAmountMarker(line).ok)
                 => pst'.heap[cur].transaction_type = by_cr(line)]_vars

\* C26: whenever a line supplies the amounts of an Alliance record, on the
\* start line or on a continuation line, and the line does not end in three
\* decimal amounts, the record is a credit if and only if the line contains
\* the letters CR in any case; when the line ends in three decimal amounts
\* the record is a debit if the first of them is positive, else a credit if
\* the second is positive, else its type is left as it was.
C26_CreditByMarkerOrColumns ==
    [][(bank = "alliance" /\ pc = "scan" /\ in_page /\ ahead # <<>> /\ ahead' = Tail(ahead))
       => LET line == Strip(ahead[1])
              cur  == pst.current_transaction
              rest_of_line == Strip(AllianceDateMatch(line).rest)
              expected(l, old) ==
                  IF ThreeAmountsTail(l).ok
                  THEN IF AmountCents(ThreeAmountsTail(l).g1) > 0 THEN "debit"
                       ELSE IF AmountCents(ThreeAmountsTail(l).g2) > 0 THEN "credit"
                       ELSE old
                  ELSE IF Contains(Upper(l), <<"C", "R">>) THEN "credit" ELSE "debit"
          IN  /\ (/\ Len(pst'.heap) = Len(pst.heap) + 1
                  /\ rest_of_line # <<>>
                  /\ \/ DescAmountBalanceMarker(rest_of_line).ok
                     \/ ThreeAmountsTail(rest_of_line).ok
                     \/ TwoAmountsTail(rest_of_line).ok
                     \/ SingleAmountTail(rest_of_line).ok)
                 => pst'.heap[Len(pst'.heap)].transaction_type = expected(rest_of_line, "debit")
              /\ (/\ Len(pst'.heap) = Len(pst.heap)
                  /\ cur # 0 /\ pst'.heap[cur] # pst.heap[cur]
                  /\ ~Get(pst.heap[cur], "has_amounts", FALSE)
                  /\ \/ AmountBalanceMarker(line).ok
                     \/ ThreeAmountsTail(line).ok
                     \/ TwoAmountsTail(line).ok
                     \/ SingleAmountMarker(line).ok)
                 => pst'.heap[cur].transaction_type =
                        expected(line, pst.heap[cur].transaction_type)]_vars

\* 07/01/2024 SCRAP 2.00 493.00, whose only CR stands in its description,
\* was returned as a credit of 2.00; 08/01/2024 CR 3.00 0.00 490.00, which
\* holds CR, as a debit of 3.00; 05/01/2024 DEP 0.00 3.00 496.00, which
\* holds no CR, as a credit of 3.00
C26_Witness ==
    /\ pc = "parsed" /\ bank = "alliance"
    /\ \E i, j, k \in 1..Len(parsed) :
           /\ parsed[i].description = <<"S", "C", "R", "A", "P">>
           /\ parsed[i].transaction_type = "credit"
           /\ parsed[i].amount = 200 /\ parsed[i].balance = 49300
           /\ parsed[j].description = <<"C", "R">>
           /\ parsed[j].transaction_type = "debit"
           /\ parsed[j].amount = -300 /\ parsed[j].balance = 49000
           /\ parsed[k].description = <<"D", "E", "P">>
           /\ parsed[k].transaction_type = "credit"
           /\ parsed[k].amount = 300 /\ parsed[k].balance = 49600

\* C27: the record opened by an Alliance start line takes its amount, balance
\* and type from the first pattern, in the order (description, amount,
\* balance, marker), (withdrawal, deposit, balance), (amount, balance),
\* (single amount), that matches the text after the date: text ending in
\* three decimals is read as withdrawal, deposit and balance, text ending in
\* two decimals without a marker as amount and balance.
C27_FirstPatternDecides ==
    [][(/\ bank = "alliance" /\ pc = "scan" /\ in_page
        /\ ahead # <<>> /\ ahead' = Tail(ahead)
        /\ Len(pst'.heap) = Len(pst.heap) + 1)
       => LET rest_of_line == Strip(AllianceDateMatch(Strip(ahead[1])).rest)
              tr == pst'.heap[Len(pst'.heap)]
              cr == Contains(Upper(rest_of_line), <<"C", "R">>)
              p1 == DescAmountBalanceMarker(rest_of_line)
              p2 == ThreeAmountsTail(rest_of_line)
              p3 == TwoAmountsTail(rest_of_line)
              p4 == SingleAmountTail(rest_of_line)
              signed(g) == IF cr THEN AmountCents(g) ELSE -AmountCents(g)
          IN  rest_of_line # <<>> =>
              IF p1.ok
              THEN tr.amount = signed(p1.g1) /\ tr.balance = AmountCents(p1.g2)
              ELSE IF p2.ok
              THEN /\ tr.balance = AmountCents(p2.g3)
                   /\ tr.amount = IF AmountCents(p2.g1) > 0 THEN -AmountCents(p2.g1)
                                  ELSE AmountCents(p2.g2)
                   /\ tr.transaction_type =
                          IF AmountCents(p2.g1) = 0 /\ AmountCents(p2.g2) > 0
                          THEN "credit" ELSE "debit"
              ELSE IF p3.ok
              THEN /\ tr.amount = signed(p3.g1) /\ tr.balance = AmountCents(p3.g2)
                   /\ tr.transaction_type = IF cr THEN "credit" ELSE "debit"
              ELSE IF p4.ok
              THEN /\ tr.amount = signed(p4.g1) /\ tr.balance = 0
                   /\ tr.transaction_type = IF cr THEN "credit" ELSE "debit"
              ELSE tr.amount = 0 /\ tr.balance = 0]_vars

\* 04/01/2024 FEE 2.00 493.00 was returned as amount -2.00 with balance
\* 493.00, 05/01/2024 DEP 0.00 3.00 496.00 as deposit 3.00 with balance
\* 496.00 and 06/01/2024 FEE 2.00, which ends in a single amount, as amount
\* -2.00 with balance 0
C27_Witness ==
    /\ pc = "parsed" /\ bank = "alliance" /\ Len(parsed) = 3
    /\ \E i, j, k \in 1..3 :
           /\ parsed[i].description = <<"F", "E", "E">>
           /\ parsed[i].date = <<"2","0","2","4","-","0","1","-","0","4">>
           /\ parsed[i].amount = -200 /\ parsed[i].balance = 49300
           /\ parsed[j].description = <<"D", "E", "P">>
           /\ parsed[j].amount = 300 /\ parsed[j].balance = 49600
           /\ parsed[k].description = <<"F", "E", "E">>
           /\ parsed[k].date = <<"2","0","2","4","-","0","1","-","0","6">>
           /\ parsed[k].amount = -200 /\ parsed[k].balance = 0

\* C28: the Alliance parser returns, in the order in which they were pushed,
\* exactly the pushed records that are complete or flagged has_amounts, and
\* no returned record has an is_parsing or a has_amounts field.
C28_AllianceKeepsCompleteOrFlagged ==
    (pc = "parsed" /\ bank = "alliance") =>
        LET pushed  == [k \in 1..Len(pst.transactions) |-> pst.heap[pst.transactions[k]]]
            kept(k) == ~pushed[k].is_parsing
                       \/ ("has_amounts" \in DOMAIN pushed[k] /\ pushed[k].has_amounts)
            rank(k) == Cardinality({i \in 1..k : kept(i)})
        IN  /\ Len(parsed) = Cardinality({k \in 1..Len(pushed) : kept(k)})
            /\ \A k \in 1..Len(pushed) :
                   kept(k) => /\ parsed[rank(k)].date = pushed[k].date
                              /\ parsed[rank(k)].balance = pushed[k].balance
                              /\ parsed[rank(k)].transaction_type = pushed[k].transaction_type
                              /\ parsed[rank(k)].description = Strip(pushed[k].description)
            /\ \A j \in 1..Len(parsed) :
                   DOMAIN parsed[j] = {"date", "description", "amount", "balance",
                                       "transaction_type", "bank"}

\* of three pushed records the first, still open but flagged has_amounts,
\* and the third, complete, were returned in that order; the second, open
\* and without amounts, was dropped
C28_Witness ==
    /\ pc = "parsed" /\ bank = "alliance"
    /\ Len(pst.transactions) = 3 /\ Len(parsed) = 2
    /\ pst.heap[pst.transactions[1]].is_parsing
    /\ Get(pst.heap[pst.transactions[1]], "has_amounts", FALSE)
    /\ pst.heap[pst.transactions[2]].is_parsing
    /\ ~Get(pst.heap[pst.transactions[2]], "has_amounts", FALSE)
    /\ ~pst.heap[pst.transactions[3]].is_parsing
    /\ parsed[1].date = pst.heap[pst.transactions[1]].date
    /\ parsed[2].date = pst.heap[pst.transactions[3]].date
    /\ parsed[1].date # parsed[2].date

\* C29: every record returned by the Alliance parser has an amount that is
\* not positive when it is a debit and not negative when it is a credit,
\* and it has the type and the magnitude of the amount that the pushed
\* record had before the clean-up.
C29_AllianceSignAgreesWithType ==
    (pc = "parsed" /\ bank = "alliance") =>
        LET abs(n)  == IF n < 0 THEN -n ELSE n
            kept    == {k \in 1..Len(pst.transactions) :
                           LET d == pst.heap[pst.transactions[k]]
                           IN  ~d.is_parsing \/ Get(d, "has_amounts", FALSE)}
            rank(k) == Cardinality({i \in kept : i <= k})
        IN  /\ \A j \in 1..Len(parsed) :
                   /\ parsed[j].transaction_type \in {"debit", "credit"}
                   /\ parsed[j].transaction_type = "debit" => parsed[j].amount <= 0
                   /\ parsed[j].transaction_type = "credit" => parsed[j].amount >= 0
            /\ \A k \in kept :
                   rank(k) <= Len(parsed) =>
                       /\ abs(parsed[rank(k)].amount)
                              = abs(pst.heap[pst.transactions[k]].amount)
                       /\ parsed[rank(k)].transaction_type
                              = pst.heap[pst.transactions[k]].transaction_type

\* a debit of -5.00 and a credit of 100.00 were returned together
C29_Witness ==
    /\ pc = "parsed" /\ bank = "alliance"
    /\ \E j, k \in 1..Len(parsed) :
           /\ parsed[j].transaction_type = "debit" /\ parsed[j].amount = -500
           /\ parsed[k].transaction_type = "credit" /\ parsed[k].amount = 10000

\* C30: every record returned for a card statement carries the card of the
\* last cardholder-name line before its own line that has a card-number line
\* among the four lines after it, whether or not a card was set before.
C30_NameThenCardSetsContext ==
    \A c \in 1..Len(calls) :
        (/\ calls[c].args.hint = "credit_card"
         /\ calls[c].args.doc.opens
         /\ calls[c].result.success)
        => LET lines    == Split(calls[c].args.doc.pages[1])
               n        == Len(lines)
               name(i)  == Contains(Strip(lines[i]), CreditCardText.MUHAMMAD_MAHERILHAM)
               cards(i) == {k \in (i + 1)..Min({i + 4, n}) : CardMatch(Strip(lines[k])).ok}
               detections(t) == {i \in 1..(t - 1) : name(i) /\ cards(i) # {}}
               context(t) == CardMatch(Strip(lines[Min(cards(Max(detections(t))))]))
           IN  \A j \in 1..Len(calls[c].result.transactions) :
                   \E t \in 1..n :
                       /\ CreditCardMatch(Strip(lines[t])).ok
                       /\ CreditCardMatch(Strip(lines[t])).description
                              = calls[c].result.transactions[j].description
                       /\ detections(t) # {}
                       /\ calls[c].result.transactions[j].card_type = context(t).card_type
                       /\ calls[c].result.transactions[j].card_number = context(t).card_number

\* C31: in the credit card parser, with a card set and inside the section, a
\* transaction line without an amount looks for a bare amount line among the
\* next two lines of the page only: when there is none nothing is appended,
\* and otherwise exactly one record is appended, with the amount of the first
\* such line and with the description of the start line followed by the
\* line passed over before it, unless that line starts with a date or holds
\* a totals word.
C31_AmountWithinTwoLines ==
    [][(/\ pc = "scan" /\ in_page /\ ahead # <<>>
        /\ ahead' = Tail(ahead)
        /\ bank = "credit_card"
        /\ pst.in_section /\ pst.current_card # NoCard /\ ~pst.stopped
        /\ ~IsSectionStart(bank, ahead[1]) /\ ~IsSectionEnd(bank, ahead[1])
        /\ CreditCardMatch(Strip(ahead[1])).ok
        /\ CreditCardMatch(Strip(ahead[1])).amount_str = <<>>)
       => LET description == Strip(CreditCardMatch(Strip(ahead[1])).description)
              bare(k)  == AmountTailAt(Strip(ahead[k]), 1)
              window   == {k \in 2..3 : k <= Len(ahead)}
              found    == {k \in window : bare(k).ok}
              first    == Min(found)
              passed   == Strip(ahead[2])
              appended == /\ first = 3
                          /\ ~DdMmAt(passed, 1)
                          /\ ~ContainsAny(passed, << CreditCardText.TOTAL_CREDIT,
                                                     CreditCardText.JUMLAH_KREDIT,
                                                     CreditCardText.TOTAL_DEBIT,
                                                     CreditCardText.SUB_TOTAL >>)
          IN  IF found = {}
              THEN /\ Len(ahead) >= 3 \/ ahead_end
                   /\ pst'.heap = pst.heap /\ pst'.transactions = pst.transactions
              ELSE /\ pst'.raised = "None"
                   /\ Len(pst'.heap) = Len(pst.heap) + 1
                   /\ pst'.transactions = Append(pst.transactions, Len(pst'.heap))
                   /\ pst'.heap[Len(pst'.heap)].amount = FloatCents(bare(first).amount_str)
                   /\ pst'.heap[Len(pst'.heap)].description =
                          UsdRewrite(Strip(IF appended
                                           THEN description \o <<" ">> \o passed
                                           ELSE description))]_vars

\* C32: every record the credit card parser appends has an amount that is
\* not negative and is a credit exactly when the amount token that supplied
\* the amount, on the start line or on the bare amount line found after it,
\* was followed by CR; the records returned are the records appended.
C32_UnsignedAmountTypedByCR ==
    /\ [][(/\ pc = "scan" /\ in_page /\ ahead # <<>>
           /\ ahead' = Tail(ahead)
           /\ bank = "credit_card"
           /\ Len(pst'.heap) = Len(pst.heap) + 1)
          => LET m       == CreditCardMatch(Strip(ahead[1]))
                 found   == {k \in 2..3 : k <= Len(ahead) /\ AmountTailAt(Strip(ahead[k]), 1).ok}
                 cr_flag == IF m.amount_str # <<>> THEN m.cr_flag
                            ELSE AmountTailAt(Strip(ahead[Min(found)]), 1).cr_flag
                 d       == pst'.heap[Len(pst'.heap)]
             IN  /\ m.ok
                 /\ m.amount_str = <<>> => found # {}
                 /\ d.amount >= 0
                 /\ d.transaction_type = IF cr_flag THEN "credit" ELSE "debit"]_vars
    /\ []((pc = "parsed" /\ bank = "credit_card") =>
             /\ Len(parsed) = Len(pst.heap)
             /\ \A j \in 1..Len(parsed) :
                    /\ parsed[j].amount >= 0
                    /\ parsed[j].amount = pst.heap[j].amount
                    /\ parsed[j].transaction_type = pst.heap[j].transaction_type)

\* the parser returned a debit of 25.50 for 01/02 29/02 SHOP 25.50, a
\* credit of 3.00 for 10/02 11/02 TOLL 3.00 CR, written with no-break spaces
\* and a carriage return at its end, and a credit of 12.34 for
\* 04/02 05/02 REFUND followed by 12.34 CR
C32_Witness ==
    /\ pc = "parsed" /\ bank = "credit_card"
    /\ Len(parsed) = 3
    /\ \E i, j, k \in 1..3 :
           /\ parsed[i].transaction_type = "debit" /\ parsed[i].amount = 2550
           /\ parsed[j].transaction_type = "credit" /\ parsed[j].amount = 300
           /\ parsed[j].description = <<"T","O","L","L">>
           /\ parsed[k].transaction_type = "credit" /\ parsed[k].amount = 1234

\* C33: a batch of at most ten files gets one result entry per file handled
\* so far, in the order of submission, each with the index and name of its
\* file and marked success or failure; entries of equal files differ in the
\* index only; no step of the batch or of another request alters an entry
\* made before, and a step adds at most one entry; the response counts
\* successful_files + failed_files = total_files = the number of files. A
\* batch of more than ten files is refused before any file is handled.
C33_BatchHasOneEntryPerFile ==
    /\ []((svc.pc # "idle" /\ svc.kind = "batch") =>
            IF Len(svc.files) > 10
            THEN /\ svc.pc = "done" /\ svc.results = <<>>
                 /\ "raised" \in DOMAIN svc.response /\ svc.response.status_code = 400
            ELSE /\ Len(svc.results) = svc.i
                 /\ svc.i <= Len(svc.files)
                 /\ \A k \in 1..Len(svc.results) :
                        /\ svc.results[k].file_index = k - 1
                        /\ svc.results[k].filename = svc.files[k].filename
                        /\ svc.results[k].success \in BOOLEAN
                        /\ \A l \in 1..Len(svc.results) :
                               svc.files[k] = svc.files[l] =>
                                   [svc.results[k] EXCEPT !.file_index = 0]
                                       = [svc.results[l] EXCEPT !.file_index = 0]
                 /\ svc.pc = "done" =>
                        /\ svc.i = Len(svc.files)
                        /\ svc.response.status_code = 200
                        /\ svc.response.content.data.results = svc.results
                        /\ svc.response.content.data.total_files = Len(svc.files)
                        /\ svc.response.content.data.successful_files
                               = Cardinality({k \in 1..Len(svc.results) : svc.results[k].success})
                        /\ svc.response.content.data.successful_files
                               + svc.response.content.data.failed_files
                               = svc.response.content.data.total_files)
    /\ [][(svc.pc \in {"loop", "reading"} /\ svc.kind = "batch") =>
             /\ svc'.pc \in {"loop", "reading", "done"} /\ svc'.kind = "batch"
             /\ svc'.files = svc.files
             /\ Len(svc'.results) \in {Len(svc.results), Len(svc.results) + 1}
             /\ \A k \in 1..Len(svc.results) : svc'.results[k] = svc.results[k]]_vars

\* a batch of three files whose second file was refused returned three
\* entries, the third a success, and counted two successes and one failure,
\* while another request was waiting for its upload
C33_Witness ==
    /\ svc.pc = "done" /\ svc.kind = "batch" /\ Len(svc.files) = 3
    /\ svc.other.pc = "reading"
    /\ Len(svc.results) = 3
    /\ svc.results[1].success /\ ~svc.results[2].success /\ svc.results[3].success
    /\ svc.results[3].data.transaction_count = 1
    /\ svc.response.content.data.successful_files = 2
    /\ svc.response.content.data.failed_files = 1

\* C37: when the parser's process_pdf returns a failure result for the
\* document of a /process request, the endpoint does not answer with status
\* 200 and success = true.
C37_ParserFailureIsNotSuccess ==
    (/\ svc.pc = "done" /\ svc.kind = "process"
     /\ svc.file # NoUpload
     /\ EndsWith(Lower(svc.file.filename), <<".", "p", "d", "f">>)
     /\ ~ProcessPdf(NewParser, [doc |-> svc.file.doc, year |-> svc.file.year],
                    IF svc.bank_name = None THEN "None" ELSE BankTypeOf(svc.bank_name),
                    svc.host).success)
    => ~(/\ "status_code" \in DOMAIN svc.response
         /\ svc.response.status_code = 200
         /\ svc.response.content.success)

\* C34: in the CIMB and Alliance parsers no record that is returned was
\* pushed to the list twice: each transaction-start line accounts for at
\* most one entry of the returned list.
C34_NoRecordReturnedTwice ==
    (pc = "parsed" /\ bank \in {"cimb", "alliance"}) =>
        \A i, j \in 1..Len(pst.transactions) :
            (i # j /\ pst.transactions[i] = pst.transactions[j]) =>
                LET d == pst.heap[pst.transactions[i]]
                IN  IF bank = "cimb" THEN d.is_parsing ELSE ~AllianceKeep(d)


\* C35: a line that holds nothing but an amount supplies the amount of at
\* most one returned credit-card record: a one-page statement yields no more
\* records than it has start lines with an amount of their own plus bare
\* amount lines.
C35_AmountLineSuppliesOneRecord ==
    \A c \in 1..Len(calls) :
        (/\ calls[c].args.hint = "credit_card"
         /\ calls[c].args.doc.opens
         /\ calls[c].result.success)
        => LET lines == Split(calls[c].args.doc.pages[1])
               own   == {i \in 1..Len(lines) :
                            LET m == CreditCardMatch(Strip(lines[i]))
                            IN  m.ok /\ m.amount_str # <<>>}
               bare  == {i \in 1..Len(lines) : AmountTailAt(Strip(lines[i]), 1).ok}
           IN  Len(calls[c].result.transactions) <= Cardinality(own) + Cardinality(bare)

\* C36: in the CIMB parser a line without a date that is handled while the
\* current record is complete leaves the amount and the balance of that
\* record as they were.
C36_CompleteRecordKeepsAmounts ==
    [][(/\ bank = "cimb"
        /\ pc = "scan" /\ in_page /\ ahead # <<>> /\ ahead' = Tail(ahead)
        /\ pst.current_transaction # 0
        /\ ~pst.heap[pst.current_transaction].is_parsing
        /\ ~CimbDateMatch(Strip(ahead[1])).ok)
       => /\ pst.current_transaction <= Len(pst'.heap)
          /\ pst'.heap[pst.current_transaction].amount
                 = pst.heap[pst.current_transaction].amount
          /\ pst'.heap[pst.current_transaction].balance
                 = pst.heap[pst.current_transaction].balance]_vars

\* C38: the Maybank and Alliance parsers begin every page with text outside
\* the section: the flag is off when the page begins, only a section-start
\* marker turns it on, and a record is created only by a line handled while
\* it is on. The CIMB and credit-card parsers take the flag over unchanged
\* when the next page begins.
C38_SectionFlagAtPageStart ==
    [][LET scan == pc = "scan" /\ in_page /\ ahead # <<>> /\ ahead' = Tail(ahead)
       IN  /\ (bank' \in {"maybank", "alliance"} /\ ~in_page /\ in_page')
                  => ~pst'.in_section
           /\ (bank \in {"maybank", "alliance"} /\ ~pst.in_section /\ pst'.in_section)
                  => (scan /\ IsSectionStart(bank, ahead[1]))
           /\ (bank \in {"maybank", "alliance"} /\ Len(pst'.heap) > Len(pst.heap))
                  => (scan /\ pst.in_section)
           /\ (bank \in {"cimb", "credit_card"} /\ pc = "scan" /\ pageno' = pageno + 1)
                  => pst'.in_section = pst.in_section]_vars

\* the second page of an Alliance statement begins with a start line: the
\* first page produced a record and ended inside the section, and the flag
\* is off again
C38_Witness ==
    /\ bank = "alliance" /\ pc = "scan" /\ pageno = 2 /\ in_page
    /\ ahead # <<>> /\ plines = Len(ahead)
    /\ AllianceDateMatch(Strip(ahead[1])).ok
    /\ Len(pst.transactions) >= 1 /\ ~after_end
    /\ ~pst.in_section

\* C39: the credit-card parser holds no record while no card is set; the
\* handling of a line that leaves no card set, a transaction line inside
\* the section included, appends nothing, alters nothing and raises nothing;
\* every record appended names a card type and a card number that are not
\* None, and so does every record returned.
C39_NoRecordWithoutCard ==
    /\ []((bank = "credit_card" /\ pst.current_card = NoCard) =>
             /\ pst.heap = <<>> /\ pst.transactions = <<>>
             /\ pc = "parsed" => parsed = <<>>)
    /\ [][(/\ pc = "scan" /\ in_page /\ ahead # <<>>
           /\ ahead' = Tail(ahead)
           /\ bank = "credit_card")
          => /\ pst'.current_card = NoCard =>
                   /\ pst'.heap = <<>> /\ pst'.transactions = <<>>
                   /\ pst'.raised = "None"
                   /\ pst'.in_section = (pst.in_section \/ IsSectionStart(bank, ahead[1]))
             /\ \A r \in (Len(pst.heap) + 1)..Len(pst'.heap) :
                   /\ pst'.current_card # NoCard
                   /\ pst'.heap[r].card_type = pst'.current_card.type
                   /\ pst'.heap[r].card_number = pst'.current_card.masked_number
                   /\ pst'.heap[r].card_type # None
                   /\ pst'.heap[r].card_number # None]_vars
    /\ []((pc = "parsed" /\ bank = "credit_card") =>
             \A j \in 1..Len(parsed) :
                 /\ "card_type" \in DOMAIN parsed[j] /\ "card_number" \in DOMAIN parsed[j]
                 /\ parsed[j].card_type # None
                 /\ parsed[j].card_number # None)

\* the line 01/02 29/02 SHOP 25.50 is the next line of the line loop, inside
\* the section and with no card set, after the line loop has handled the
\* table header and one more line
C39_Witness ==
    /\ pc = "scan" /\ bank = "credit_card" /\ in_page
    /\ pst.in_section /\ pst.current_card = NoCard
    /\ plines - Len(ahead) >= 2
    /\ ahead # <<>> /\ ahead[1] = SampleLine.cc_txn
    /\ ~NeedsLine
====
